---------------------------- MODULE Spec2Model ----------------------------
(***************************************************************************)
(* Model of ohs_batches/fileindexer.py: the heuristic name extraction and  *)
(* safe-rename engine; and, further down, of the scripts rename_dirs.py,   *)
(* cleanup_ffed_ids.py and 03_renamer.py of the same directory.  Strings are TLA+ strings handled character by      *)
(* character (SubSeq, Len, \o).  The regular-expression engine is the one  *)
(* part that is not re-implemented: a text comes with the matches          *)
(* ("hits") that PAT_DVF / PAT_COMMA / PAT_SEMI / PAT_SPACE .finditer      *)
(* return on it, and the hit lists of the catalogues below were produced   *)
(* by running those four compiled patterns of the source on the texts.     *)
(***************************************************************************)
EXTENDS Integers, Sequences, FiniteSets, TLC

VARIABLES
    \* ---- configuration and filesystem --------------------------------
    edited,     \* TRUE iff the user changed the DRY_RUN line of the script
    dryRun,     \* value of the module global DRY_RUN during the runs
    fs,         \* ROOT directory: entry name -> [dir, c] (c: index in Contents)
    fs0,        \* ROOT directory as it was before the first run
    \* ---- main() / derive_name_for_folder() / safe_rename() -----------
    run,        \* number of the current invocation of main()
    pc,         \* control point of the engine
    todo,       \* entries of the ROOT listing not yet visited by the for loop
    cur,        \* name of the child being processed ("" when none)
    pend,       \* file indices of cur not yet visited by the current tier
    cands,      \* file_name_cands / pdf_cands collected so far
    tier,       \* tier of derive_name_for_folder that produced cands
    opened,     \* file indices of cur whose body was handed to PdfReader
    best,       \* winner of the current folder (NoName when none)
    target,     \* destination name planned by safe_rename
    attempt,    \* number of rename attempts made so far for cur
    slept,      \* tenths of a second slept in the current safe_rename call
    last_err,   \* the PermissionError caught by the last attempt (NoError when none)
    out,        \* terminal report lines printed so far: [run, tag, folder, to, why]
    hist,       \* hist[r]: ROOT directory at the end of run r
    faulted,    \* calls of safe_rename in which folder.rename has raised
    \* ---- extraction of one text, one match at a time -----------------
    xin,        \* the text under extraction and its hits; or a scorer call
    xpos,       \* number of hits already processed
    xout,       \* candidates emitted so far (or the score)
    xlast,      \* what the last processed hit emitted
    \* ---- rename_dirs.py, cleanup_ffed_ids.py, 03_renamer.py ----------
    apply_changes, \* args.apply of the run (the --apply switch)
    args,       \* the inputs of the run: legacy_ids and person_map; or the
                \* name of the subfolder whose files are processed
    root,       \* the directory the script works in: entry name -> identity
                \* (children of Path.cwd(), or the files of the subfolder)
    queue,      \* what the loop under way has not visited yet
    tasks,      \* the planned (src, dst) pairs of rename_dirs
    moves       \* renames carried out: [src, dst, existed]

vars == << edited, dryRun, fs, fs0, run, pc, todo, cur, pend, cands, tier, opened,
           best, target, attempt, slept, last_err, out, hist, faulted, xin, xpos, xout, xlast,
           apply_changes, args, root, queue, tasks, moves >>

-----------------------------------------------------------------------------
(* Characters and Python's str methods                                      *)

Ch(s, i) == SubSeq(s, i, i)

UPPER == "ABCDEFGHIJKLMNOPQRSTUVWXYZ"
LOWER == "abcdefghijklmnopqrstuvwxyz"
DIGITS == "0123456789"

UpperSet == { Ch(UPPER, i) : i \in 1..Len(UPPER) }
LowerSet == { Ch(LOWER, i) : i \in 1..Len(LOWER) }
DigitSet == { Ch(DIGITS, i) : i \in 1..Len(DIGITS) }
\* Characters outside ASCII cannot be written in a string of this module; each
\* one the program names is represented by an ASCII character that no text of
\* the model uses for anything else.
NBSP == "~"          \* U+00A0 non-breaking space
HYPHEN_2010 == "#"   \* U+2010 hyphen
HYPHEN_2011 == "|"   \* U+2011 non-breaking hyphen
EN_DASH == "^"       \* U+2013 en dash
EM_DASH == "="       \* U+2014 em dash
FIGURE_DASH == "+"   \* U+2012 figure dash: no replace of collapse_ws names it

\* characters that str.split(), str.strip() and the regex class \s treat as
\* white space (Unicode white space, which includes U+00A0)
WhiteSet == { " ", "\t", "\n", NBSP }
\* the regex class \w, which decides where \b holds
WordSet == UpperSet \cup LowerSet \cup DigitSet \cup { "_" }

ToLower == [ c \in UpperSet |-> Ch(LOWER, CHOOSE i \in 1..Len(UPPER) : Ch(UPPER, i) = c) ]
ToUpper == [ c \in LowerSet |-> Ch(UPPER, CHOOSE i \in 1..Len(LOWER) : Ch(LOWER, i) = c) ]

lower_ch(c) == IF c \in UpperSet THEN ToLower[c] ELSE c
upper_ch(c) == IF c \in LowerSet THEN ToUpper[c] ELSE c

RECURSIVE str_lower(_)
str_lower(s) == IF s = "" THEN "" ELSE lower_ch(Head(s)) \o str_lower(Tail(s))

RECURSIVE str_upper(_)
str_upper(s) == IF s = "" THEN "" ELSE upper_ch(Head(s)) \o str_upper(Tail(s))

\* str.isupper(): at least one cased character and no lower-case one
str_isupper(s) ==
    /\ \E i \in 1..Len(s) : Ch(s, i) \in UpperSet
    /\ \A i \in 1..Len(s) : Ch(s, i) \notin LowerSet

\* str.replace(a, b) for a single character a
RECURSIVE str_replace(_, _, _)
str_replace(s, a, b) ==
    IF s = "" THEN ""
    ELSE (IF Head(s) = a THEN b ELSE Head(s)) \o str_replace(Tail(s), a, b)

\* str.strip()
RECURSIVE str_lstrip(_)
str_lstrip(s) == IF s # "" /\ Head(s) \in WhiteSet THEN str_lstrip(Tail(s)) ELSE s

RECURSIVE str_rstrip(_)
str_rstrip(s) ==
    IF s # "" /\ Ch(s, Len(s)) \in WhiteSet THEN str_rstrip(SubSeq(s, 1, Len(s) - 1)) ELSE s

str_strip(s) == str_rstrip(str_lstrip(s))

\* str.split(): the maximal runs of non-white characters, in order
RECURSIVE split_from(_, _)
split_from(s, word) ==
    IF s = "" THEN (IF word = "" THEN << >> ELSE << word >>)
    ELSE IF Head(s) \in WhiteSet
         THEN (IF word = "" THEN << >> ELSE << word >>) \o split_from(Tail(s), "")
         ELSE split_from(Tail(s), word \o Head(s))

str_split(s) == split_from(s, "")

\* sep.join(parts)
RECURSIVE str_join(_, _)
str_join(sep, parts) ==
    IF parts = << >> THEN ""
    ELSE IF Len(parts) = 1 THEN parts[1]
    ELSE parts[1] \o sep \o str_join(sep, Tail(parts))

\* s[a:b] of Python for 0 <= a (b is clipped to len(s))
Slice(s, a, b) == SubSeq(s, a + 1, IF b > Len(s) THEN Len(s) ELSE b)

\* the text `w` stands in s at 0-based offset q, compared without case (re.I)
AtI(s, q, w) ==
    /\ q >= 0
    /\ q + Len(w) <= Len(s)
    /\ str_lower(SubSeq(s, q + 1, q + Len(w))) = w

\* \b holds in s at 0-based offset q (between s[q-1] and s[q])
WordBoundary(s, q) ==
    LET before == q >= 1 /\ q <= Len(s) /\ Ch(s, q) \in WordSet
        after  == q < Len(s) /\ Ch(s, q + 1) \in WordSet
    IN  before # after

\* str(i) for i >= 0
RECURSIVE str_int(_)
str_int(i) == IF i < 10 THEN Ch(DIGITS, i + 1) ELSE str_int(i \div 10) \o Ch(DIGITS, (i % 10) + 1)

Range(f) == { f[i] : i \in DOMAIN f }

-----------------------------------------------------------------------------
(* Settings and word lists                                                  *)

\* the script shipped with the commit setting
DRY_RUN_Off == FALSE

\* the value of DRY_RUN in the script as shipped
DRY_RUN == TRUE
MAX_PDF_PAGES == 3
\* one attempt more
RENAMING_RETRIES_More == 5 + 1

RENAMING_RETRIES == 5
\* RETRY_WAIT_SECONDS (1.5 s) in tenths of a second
RETRY_WAIT_TENTHS == 15
\* number of characters of context taken on each side of a match
CONTEXT_CHARS == 80

STOPWORDS_LOWER == {
    "absence", "absences", "accommodation", "accomodation", "acommodation", "act",
    "address", "admin", "administered", "administering", "administration",
    "administrative", "admis", "admis eval", "admiseval", "admission", "admissions",
    "agreement", "all", "american", "ap", "application", "apr", "april", "apt",
    "athletic", "aug", "august", "authorization", "ave", "avenue", "average", "avg",
    "bc", "birth", "blvd", "boulevard", "card", "certificate", "chinese", "comments",
    "community", "conference", "conferences", "consent", "contact", "court", "creative",
    "ct", "data", "dec", "december", "division", "divisions", "documents", "dr",
    "drive", "dvf", "emergency", "eng", "english", "eval", "evaluation", "evaluations",
    "event", "faxed", "feb", "february", "first", "flvs", "form", "forms", "fri",
    "friday", "gainesville", "gifted", "government", "guardian", "hall", "hall's",
    "health", "history", "honor", "honors", "hours", "im", "imm", "immunization",
    "immunizations", "information", "interim", "interims", "iowa", "jan", "january",
    "jul", "july", "jun", "june", "junior", "justice", "kindergarten", "lane", "last",
    "lms", "ln", "lower", "mar", "march", "math", "may", "medical", "meridian",
    "middle", "mon", "monday", "name", "ne", "nov", "november", "number", "nw", "oak",
    "oct", "october", "p.k", "p.k.", "parent", "pe", "person", "persons", "phone",
    "phy", "phys", "physical", "pk", "pk.", "plan", "please", "pre-ap", "president",
    "press", "psat", "pt", "rc", "rd", "record", "recordrelease",
    "recordreleaseauthorization", "recordrequest", "records", "recordsrelease",
    "recordsrequest", "release", "releaseforrecords", "report", "representative",
    "request", "requestrecords", "requestreocrds", "requests", "road", "roll", "sample",
    "sat", "saturday", "schedule", "school", "science", "score", "scores", "se", "sec",
    "security", "sent", "sep", "sept", "september", "service", "signature", "soc",
    "social", "socsec", "socseccard", "squats", "st", "standardized", "status", "ste",
    "stk", "street", "student", "subject", "suite", "sun", "sunday", "sw", "tampa",
    "teacher", "test", "testing", "tests", "thu", "thur", "thurs", "thursday",
    "training", "transcript", "transcripts", "trip", "tue", "tues", "tuesday", "upper",
    "verification", "wed", "wednesday", "weight", "writing", "yonge" }

BAD_PAIR_LOWER == {
    << "verification", "data" >>, << "school", "lower" >>, << "lower", "school" >>,
    << "score", "test" >>, << "average", "avg" >>, << "student", "name" >> }

SHORT_ALLOW == { "li", "lu", "xu", "yu", "su", "wu", "ng", "ho", "hu", "ko", "do", "he" }

SUFFIX_ALLOW == { "jr", "sr", "ii", "iii", "iv", "v" }

\* The words that the alternation of LABEL_TAIL accepts after its leading \s+
\* (optional groups and \s* expanded; \s* taken as no space or one space).
LABEL_TAIL_WORDS == {
    "grade", "date", "page", "lower", "school", "data", "verification", "form",
    "admission", "admissions", "administering", "evaluation", "evaluations", "eval",
    "recordrequest", "recordsrequest", "requestreocrds", "recordrelease",
    "recordreleaseauthorization", "socseccard", "socsec card", "socsecuritycard",
    "socsecurity card", "soc seccard", "soc sec card", "soc securitycard",
    "soc security card", "socialseccard", "socialsec card", "socialsecuritycard",
    "socialsecurity card", "social seccard", "social sec card", "social securitycard",
    "social security card", "iowa", "english", "math", "medical", "physical" }

-----------------------------------------------------------------------------
(* Small helpers and the validator                                          *)

\* norm_cap: every white-space separated piece gets an upper-case first
\* character and a lower-case rest; the pieces are joined by one space
CapPiece(p) == upper_ch(Ch(p, 1)) \o str_lower(SubSeq(p, 2, Len(p)))

norm_cap(s) ==
    LET ps == str_split(s)
    IN  str_join(" ", [ i \in 1..Len(ps) |-> CapPiece(ps[i]) ])

is_stopword_token(tok) == str_lower(tok) \in STOPWORDS_LOWER

\* LABEL_TAIL matches at offset p of s: white space from p up to a label word
\* that is followed by a word boundary; the match then runs to the end of s.
LabelTailAt(s, p) ==
    \E q \in (p + 1)..Len(s) :
        /\ \A k \in (p + 1)..q : Ch(s, k) \in WhiteSet
        /\ \E w \in LABEL_TAIL_WORDS :
              /\ AtI(s, q, w)
              /\ WordBoundary(s, q + Len(w))

\* LABEL_TAIL.sub("", s): the text before the leftmost match
LabelTailSub(s) ==
    LET ps == { p \in 0..(Len(s) - 1) : LabelTailAt(s, p) }
    IN  IF ps = {} THEN s
        ELSE SubSeq(s, 1, CHOOSE p \in ps : \A r \in ps : p <= r)

strip_labels(side) ==
    LET s1 == str_strip(side)
        s2 == str_strip(LabelTailSub(s1))
    IN  IF s1 = "" THEN s1
        ELSE IF is_stopword_token(s2) THEN ""
        ELSE s2

token_ok(tok) ==
    LET tlo == str_lower(tok)
    IN  /\ tok # ""
        /\ \A i \in 1..Len(tok) : Ch(tok, i) \notin DigitSet
        /\ tlo \notin STOPWORDS_LOWER
        /\ ~ (Len(tlo) <= 2 /\ tlo \notin SHORT_ALLOW /\ tlo \notin SUFFIX_ALLOW)
        /\ ~ (str_isupper(tok) /\ Len(tok) > 3)
        /\ tlo \notin { "email", "e-mail" }

\* the test of one token in clean_name_side and in looks_like_name
TokenKept(t) == str_lower(t) \in SUFFIX_ALLOW \/ token_ok(t)

clean_name_side(side_text) ==
    LET tokens == str_split(str_replace(strip_labels(side_text), ",", " "))
        t_norm(t) == upper_ch(Ch(t, 1)) \o SubSeq(t, 2, Len(t))
        keep == SelectSeq([ i \in 1..Len(tokens) |-> t_norm(tokens[i]) ], TokenKept)
    IN  str_join(" ", keep)

\* a validator that accepts every pair
looks_like_name_Any(last, first) == TRUE

looks_like_name(last, first) ==
    LET l == clean_name_side(last)
        f == clean_name_side(first)
        toks == str_split(str_replace(l \o " " \o f, ",", " "))
    IN  /\ l # ""
        /\ f # ""
        /\ << str_lower(l), str_lower(f) >> \notin BAD_PAIR_LOWER
        /\ \A i \in 1..Len(toks) : TokenKept(toks[i])

-----------------------------------------------------------------------------
(* The scorer                                                               *)

\* a scorer whose bonus for the DVF rule is 2
score_candidate_SmallBonus(last, first, source, dvf_hit, had_comma, near_anchor) ==
    LET parts == Len(str_split(last \o " " \o first))
    IN  10 + (IF had_comma THEN 6 ELSE 0) + (IF near_anchor THEN 4 ELSE 0)
        + (IF source = "filename" THEN 2 ELSE 0) + (IF source = "pdf" THEN 1 ELSE 0)
        + (IF dvf_hit THEN 2 ELSE 0) + (IF parts <= 3 THEN 1 ELSE 0)
        - (IF parts >= 5 THEN 2 ELSE 0)
        - (IF \E i \in 1..Len(last) : Ch(last, i) = " " THEN 2 ELSE 0)

score_candidate(last, first, source, dvf_hit, had_comma, near_anchor) ==
    LET parts == Len(str_split(last \o " " \o first))
    IN  10
        + (IF had_comma THEN 6 ELSE 0)
        + (IF near_anchor THEN 4 ELSE 0)
        + (IF source = "filename" THEN 2 ELSE 0)
        + (IF source = "pdf" THEN 1 ELSE 0)
        + (IF dvf_hit THEN 12 ELSE 0)
        + (IF parts <= 3 THEN 1 ELSE 0)
        - (IF parts >= 5 THEN 2 ELSE 0)
        - (IF \E i \in 1..Len(last) : Ch(last, i) = " " THEN 2 ELSE 0)


\* re.sub(r"\s+", " ", s): every maximal run of white space becomes one space
RECURSIVE SubWhiteRuns(_, _)
SubWhiteRuns(s, inRun) ==
    IF s = "" THEN ""
    ELSE IF Head(s) \in WhiteSet
         THEN (IF inRun THEN "" ELSE " ") \o SubWhiteRuns(Tail(s), TRUE)
         ELSE Head(s) \o SubWhiteRuns(Tail(s), FALSE)

\* a normalizer that halves the runs of spaces, s.replace("  ", " "), in the
\* place of the regex
RECURSIVE ReplacePairs(_)
ReplacePairs(s) ==
    IF Len(s) < 2 THEN s
    ELSE IF Head(s) = " " /\ Head(Tail(s)) = " "
         THEN " " \o ReplacePairs(Tail(Tail(s)))
         ELSE Head(s) \o ReplacePairs(Tail(s))

collapse_ws_Pairs(s) ==
    LET s1 == str_replace(s, NBSP, " ")
        s2 == str_replace(str_replace(str_replace(str_replace(s1,
                  HYPHEN_2010, "-"), HYPHEN_2011, "-"), EN_DASH, "-"), EM_DASH, "-")
    IN  str_strip(ReplacePairs(s2))

collapse_ws(s) ==
    LET s1 == str_replace(s, NBSP, " ")
        s2 == str_replace(str_replace(str_replace(str_replace(s1,
                  HYPHEN_2010, "-"), HYPHEN_2011, "-"), EN_DASH, "-"), EM_DASH, "-")
    IN  str_strip(SubWhiteRuns(s2, FALSE))

-----------------------------------------------------------------------------
(* Matches, context rejection and the two extractors                        *)

\* A hit is one match object of one pattern on a text:
\*   [pat, start, end, g1, g2]   start/end as m.start()/m.end(),
\* g1, g2 = m.group(1), m.group(2) (for PAT_DVF: the groups last and first).
Pats == { "DVF", "COMMA", "SEMI", "SPACE" }

\* The alternatives of CONTEXT_REJECT: [w: the text in lower case, lb / rb:
\* whether the alternative demands \b before / after].  \s+ is one space and
\* \s* none or one, as in every text that went through collapse_ws.
Phrase(w, lb, rb) == [ w |-> w, lb |-> lb, rb |-> rb ]

CONTEXT_REJECT == {
    Phrase("contact person's name", FALSE, FALSE), Phrase("contact persons name", FALSE, FALSE),
    Phrase("guardian", FALSE, FALSE), Phrase("parent", FALSE, FALSE),
    Phrase("emergency", FALSE, FALSE),
    Phrase("student name signature", FALSE, FALSE), Phrase("student name,signature", FALSE, FALSE),
    Phrase("student name, signature", FALSE, FALSE), Phrase("student name ,signature", FALSE, FALSE),
    Phrase("student name , signature", FALSE, FALSE),
    Phrase("address", TRUE, TRUE), Phrase("email", TRUE, TRUE), Phrase("e-mail", TRUE, TRUE),
    Phrase("comment", TRUE, TRUE), Phrase("comments", TRUE, TRUE), Phrase("absence", TRUE, TRUE),
    Phrase("interim", TRUE, TRUE), Phrase("birth", TRUE, TRUE), Phrase("certificate", TRUE, FALSE),
    Phrase("admission", TRUE, TRUE), Phrase("admissions", TRUE, TRUE),
    Phrase("administering", TRUE, TRUE), Phrase("evaluation", TRUE, TRUE),
    Phrase("evaluations", TRUE, TRUE), Phrase("eval", TRUE, TRUE),
    Phrase("recordrequest", TRUE, TRUE), Phrase("recordrelease", TRUE, TRUE),
    Phrase("recordauthorization", TRUE, TRUE), Phrase("recordsrequest", TRUE, TRUE),
    Phrase("recordsrelease", TRUE, TRUE), Phrase("recordsauthorization", TRUE, TRUE),
    Phrase("requestreocrds", TRUE, TRUE), Phrase("requestrecords", TRUE, TRUE),
    Phrase("data verification", TRUE, TRUE), Phrase("lower school", TRUE, TRUE),
    Phrase("verification", TRUE, TRUE), Phrase("form", TRUE, TRUE) }

\* phrase p matches in s at 0-based offset q (lc is s in lower case)
PhraseAt(s, lc, p, q) ==
    /\ q + Len(p.w) <= Len(s)
    /\ SubSeq(lc, q + 1, q + Len(p.w)) = p.w
    /\ p.lb => WordBoundary(s, q)
    /\ p.rb => WordBoundary(s, q + Len(p.w))

\* CONTEXT_REJECT.search(ctx) finds something
ContextRejectSearch(ctx) ==
    LET lc == str_lower(ctx)
    IN  \E q \in 0..(Len(ctx) - 1) : \E p \in CONTEXT_REJECT : PhraseAt(ctx, lc, p, q)

\* a context that is the match alone
ContextOf_MatchOnly(blob, h) == Slice(blob, h.start, h.end)

\* ctx = blob[max(0, m.start()-80) : m.end()+80]
ContextOf(blob, h) ==
    Slice(blob, IF h.start - CONTEXT_CHARS < 0 THEN 0 ELSE h.start - CONTEXT_CHARS,
          h.end + CONTEXT_CHARS)

\* what one iteration of a loop of candidates_from_filename yields: nothing,
\* or one (last, first, score)
FilenameCand(h) ==
    LET flip  == h.pat = "SPACE"
        last  == norm_cap(IF flip THEN h.g2 ELSE h.g1)
        first == norm_cap(IF flip THEN h.g1 ELSE h.g2)
    IN  IF looks_like_name(last, first)
        THEN << << clean_name_side(last), clean_name_side(first),
                   score_candidate(last, first, "filename", FALSE, ~flip, FALSE) >> >>
        ELSE << >>

\* what one iteration of the PAT_DVF loop of candidates_from_pdf appends
DvfCand(h) ==
    LET last  == strip_labels(norm_cap(h.g1))
        first == strip_labels(norm_cap(h.g2))
    IN  IF looks_like_name(last, first)
        THEN << << clean_name_side(last), clean_name_side(first),
                   score_candidate(last, first, "pdf", TRUE, TRUE, TRUE) >> >>
        ELSE << >>

\* what one iteration of the general-pattern loop of candidates_from_pdf appends
GeneralCand(blob, h) ==
    LET had_comma   == h.pat # "SPACE"
        last        == norm_cap(IF had_comma THEN h.g1 ELSE h.g2)
        first       == norm_cap(IF had_comma THEN h.g2 ELSE h.g1)
        last_clean  == clean_name_side(last)
        first_clean == clean_name_side(first)
    IN  IF ContextRejectSearch(ContextOf(blob, h)) THEN << >>
        ELSE IF last_clean # "" /\ first_clean # "" /\ looks_like_name(last_clean, first_clean)
        THEN << << last_clean, first_clean,
                   score_candidate(last_clean, first_clean, "pdf", FALSE, had_comma, FALSE) >> >>
        ELSE << >>

PdfCand(blob, h) == IF h.pat = "DVF" THEN DvfCand(h) ELSE GeneralCand(blob, h)

OfPat(hits, pat) == SelectSeq(hits, LAMBDA h : h.pat = pat)

\* the order in which candidates_from_filename visits the matches of a name
FilenameOrder(hits) == OfPat(hits, "COMMA") \o OfPat(hits, "SPACE") \o OfPat(hits, "SEMI")

\* the order in which candidates_from_pdf visits the matches of a blob
PdfOrder(hits) ==
    OfPat(hits, "DVF") \o OfPat(hits, "COMMA") \o OfPat(hits, "SEMI") \o OfPat(hits, "SPACE")

RECURSIVE FilenameCands(_)
FilenameCands(hs) == IF hs = << >> THEN << >> ELSE FilenameCand(Head(hs)) \o FilenameCands(Tail(hs))

RECURSIVE PdfCands(_, _)
PdfCands(blob, hs) == IF hs = << >> THEN << >> ELSE PdfCand(blob, Head(hs)) \o PdfCands(blob, Tail(hs))

\* candidates_from_filename(fname), given the matches on preclean_filename_text(fname)
candidates_from_filename(hits) == FilenameCands(FilenameOrder(hits))

\* candidates_from_pdf(pdf), given blob = pdf_text(pdf) and the matches on it
candidates_from_pdf(blob, hits) == IF blob = "" THEN << >> ELSE PdfCands(blob, PdfOrder(hits))

-----------------------------------------------------------------------------
(* Picking the best match                                                   *)

NoName == << >>

Key(c) == << c[1], c[2] >>

\* the keys of the dict `best` in insertion order
RECURSIVE KeysInOrder(_, _)
KeysInOrder(cs, seen) ==
    IF cs = << >> THEN << >>
    ELSE IF Key(Head(cs)) \in seen THEN KeysInOrder(Tail(cs), seen)
    ELSE << Key(Head(cs)) >> \o KeysInOrder(Tail(cs), seen \cup { Key(Head(cs)) })

\* best[key] after the loop: the highest score seen for the key
BestScore(cs, k) ==
    LET scs == { cs[i][3] : i \in { j \in 1..Len(cs) : Key(cs[j]) = k } }
    IN  CHOOSE m \in scs : \A x \in scs : x <= m

RECURSIVE CountNonSpace(_)
CountNonSpace(s) ==
    IF s = "" THEN 0 ELSE (IF Head(s) = " " THEN 0 ELSE 1) + CountNonSpace(Tail(s))

\* a sort key that puts the lowest score first
sort_key_Ascending(cs, k) ==
    << BestScore(cs, k),
       Len(str_split(k[1] \o " " \o k[2])),
       CountNonSpace(k[1]) + CountNonSpace(k[2]) >>

\* a sort key that compares the characters before the tokens
sort_key_LengthFirst(cs, k) ==
    << 0 - BestScore(cs, k),
       CountNonSpace(k[1]) + CountNonSpace(k[2]),
       Len(str_split(k[1] \o " " \o k[2])) >>

\* sort_key(kv) = (-sc, tokens, total_len)
sort_key(cs, k) ==
    << 0 - BestScore(cs, k),
       Len(str_split(k[1] \o " " \o k[2])),
       CountNonSpace(k[1]) + CountNonSpace(k[2]) >>

\* tuple comparison a < b of Python for triples of integers
TupleLess(a, b) ==
    \/ a[1] < b[1]
    \/ a[1] = b[1] /\ a[2] < b[2]
    \/ a[1] = b[1] /\ a[2] = b[2] /\ a[3] < b[3]

\* sorted() is stable: of the keys with the least sort_key the first inserted
pick_best(cs) ==
    IF cs = << >> THEN NoName
    ELSE LET ks == KeysInOrder(cs, {})
             least(i) == \A j \in 1..Len(ks) : ~ TupleLess(sort_key(cs, ks[j]), sort_key(cs, ks[i]))
         IN  ks[CHOOSE i \in 1..Len(ks) : least(i) /\ \A j \in 1..(i - 1) : ~ least(j)]


-----------------------------------------------------------------------------
(* Catalogues: folder contents and single texts                             *)

Hit(pat, start, end, g1, g2) ==
    [ pat |-> pat, start |-> start, end |-> end, g1 |-> g1, g2 |-> g2 ]

\* one page of a PDF: the text extract_text() returns, or ok = FALSE when it raises
Page(text, ok, hits) == [ text |-> text, ok |-> ok, hits |-> hits ]

\* one directory entry of a student folder.  base = preclean_filename_text(name)
\* and hits are the matches on base; readable = FALSE when PdfReader(path)
\* raises; listable = FALSE when r.pages raises (an encrypted PDF)
File(name, isfile, base, hits, readable, listable, pages) ==
    [ name |-> name, isfile |-> isfile, base |-> base, hits |-> hits,
      readable |-> readable, listable |-> listable, pages |-> pages ]

\* a text of its own: a blob (kind "pdf") or a pre-cleaned file name ("filename")
Text(kind, text, hits) == [ kind |-> kind, text |-> text, hits |-> hits ]

Contents == <<
    \* 1: a file name with a name; the body declares another name
    << File("Wynn, Hannah - Immunizations.pdf", TRUE, "Wynn, Hannah Immunizations",
           << Hit("COMMA", 0, 26, "Wynn", "Hannah Immunizations"),
              Hit("SPACE", 6, 26, "Hannah", "Immunizations") >>,
           TRUE, TRUE,
           << Page("Student Name: Doe, Jane Grade: 7", TRUE,
                   << Hit("DVF", 0, 23, "Doe", "Jane"),
                      Hit("COMMA", 14, 29, "Doe", "Jane Grade"),
                      Hit("SPACE", 0, 12, "Student", "Name"),
                      Hit("SPACE", 19, 29, "Jane", "Grade") >>) >>) >>,
    \* 2: no name in the file names; one body declares a name, another has an ordinary match
    << File("scan001.pdf", TRUE, "scan001",
           << >>,
           TRUE, TRUE,
           << Page("Student Name: Doe, Jane Grade: 7", TRUE,
                   << Hit("DVF", 0, 23, "Doe", "Jane"),
                      Hit("COMMA", 14, 29, "Doe", "Jane Grade"),
                      Hit("SPACE", 0, 12, "Student", "Name"),
                      Hit("SPACE", 19, 29, "Jane", "Grade") >>) >>),
       File("notes.pdf", TRUE, "notes",
           << >>,
           TRUE, TRUE,
           << Page("Roe, Mary", TRUE,
                   << Hit("COMMA", 0, 9, "Roe", "Mary") >>) >>) >>,
    \* 3: the only match stands next to a contact label
    << File("Immunizations.pdf", TRUE, "Immunizations",
           << >>,
           TRUE, TRUE,
           << Page("Contact Person's Name: Smith, John", TRUE,
                   << Hit("COMMA", 23, 34, "Smith", "John"),
                      Hit("SPACE", 0, 21, "Contact", "Person's Name") >>) >>) >>,
    \* 4: no PDF at all, and a subdirectory whose name looks like a name
    << File("report.docx", TRUE, "report",
           << >>,
           TRUE, TRUE,
           << >>),
       File("Roe, Mary", FALSE, "Roe, Mary",
           << Hit("COMMA", 0, 9, "Roe", "Mary") >>,
           TRUE, TRUE,
           << >>) >>,
    \* 5: blank page, page whose extraction fails, ordinary page, declared name beyond the page limit
    << File("scan.pdf", TRUE, "scan",
           << >>,
           TRUE, TRUE,
           << Page("", TRUE,
                   << >>),
              Page("Roe, Mary", FALSE,
                   << Hit("COMMA", 0, 9, "Roe", "Mary") >>),
              Page("Kim, Lee Ann", TRUE,
                   << Hit("COMMA", 0, 12, "Kim", "Lee Ann"),
                      Hit("SPACE", 5, 12, "Lee", "Ann") >>),
              Page("Student Name: Doe, Jane", TRUE,
                   << Hit("DVF", 0, 23, "Doe", "Jane"),
                      Hit("COMMA", 14, 23, "Doe", "Jane"),
                      Hit("SPACE", 0, 12, "Student", "Name") >>) >>) >>,
    \* 6: two file names with names of different forms
    << File("Hannah Wynn.pdf", TRUE, "Hannah Wynn",
           << Hit("SPACE", 0, 11, "Hannah", "Wynn") >>,
           FALSE, TRUE,
           << Page("Roe, Mary", TRUE,
                   << Hit("COMMA", 0, 9, "Roe", "Mary") >>) >>),
       File("Doe, Jane.pdf", TRUE, "Doe, Jane",
           << Hit("COMMA", 0, 9, "Doe", "Jane") >>,
           TRUE, TRUE,
           << >>) >>,
    \* 7: two bodies with ordinary matches that tie
    << File("a.pdf", TRUE, "a",
           << >>,
           TRUE, TRUE,
           << Page("Roe, Mary", TRUE,
                   << Hit("COMMA", 0, 9, "Roe", "Mary") >>) >>),
       File("b.pdf", TRUE, "b",
           << >>,
           TRUE, TRUE,
           << Page("Kim, Lena", TRUE,
                   << Hit("COMMA", 0, 9, "Kim", "Lena") >>) >>) >>,
    \* 8: the PDF that declares a name cannot be opened; another has a space-form match
    << File("x.pdf", TRUE, "x",
           << >>,
           FALSE, TRUE,
           << Page("Student Name: Doe, Jane", TRUE,
                   << Hit("DVF", 0, 23, "Doe", "Jane"),
                      Hit("COMMA", 14, 23, "Doe", "Jane"),
                      Hit("SPACE", 0, 12, "Student", "Name") >>) >>),
       File("y.pdf", TRUE, "y",
           << >>,
           TRUE, TRUE,
           << Page("Mary Roe", TRUE,
                   << Hit("SPACE", 0, 8, "Mary", "Roe") >>) >>) >>,
    \* 9: a declared name next to guardian and form labels
    << File("form.pdf", TRUE, "form",
           << >>,
           TRUE, TRUE,
           << Page("Parent/Guardian Student Name: Doe, Jane Data Verification Form", TRUE,
                   << Hit("DVF", 16, 62, "Doe", "Jane Data Verification Form"),
                      Hit("COMMA", 30, 62, "Doe", "Jane Data Verification Form"),
                      Hit("SPACE", 7, 28, "Guardian", "Student Name"),
                      Hit("SPACE", 35, 62, "Jane", "Data Verification Form") >>) >>) >>,
    \* 10: an encrypted PDF, whose pages cannot be enumerated, next to one with an ordinary match
    << File("locked.pdf", TRUE, "locked",
           << >>,
           TRUE, FALSE,
           << Page("Student Name: Doe, Jane", TRUE,
                   << Hit("DVF", 0, 23, "Doe", "Jane"),
                      Hit("COMMA", 14, 23, "Doe", "Jane"),
                      Hit("SPACE", 0, 12, "Student", "Name") >>) >>),
       File("notes.pdf", TRUE, "notes",
           << >>,
           TRUE, TRUE,
           << Page("Roe, Mary", TRUE,
                   << Hit("COMMA", 0, 9, "Roe", "Mary") >>) >>) >>
    >>

Texts == {
    Text("pdf",
           "Student Name: Abdulraheem, Hanan Grade: 7",
           << Hit("DVF", 0, 32, "Abdulraheem", "Hanan"),
              Hit("COMMA", 14, 38, "Abdulraheem", "Hanan Grade"),
              Hit("SPACE", 0, 12, "Student", "Name"),
              Hit("SPACE", 27, 38, "Hanan", "Grade") >>),
    Text("pdf",
           "Student Name: Doe, Jane Data Verification Form",
           << Hit("DVF", 0, 46, "Doe", "Jane Data Verification Form"),
              Hit("COMMA", 14, 46, "Doe", "Jane Data Verification Form"),
              Hit("SPACE", 0, 12, "Student", "Name"),
              Hit("SPACE", 19, 46, "Jane", "Data Verification Form") >>),
    Text("pdf",
           "Parent/Guardian Student Name: Doe, Jane",
           << Hit("DVF", 16, 39, "Doe", "Jane"),
              Hit("COMMA", 30, 39, "Doe", "Jane"),
              Hit("SPACE", 7, 28, "Guardian", "Student Name") >>),
    Text("pdf",
           "Student Name: May, April",
           << Hit("DVF", 0, 24, "May", "April"),
              Hit("COMMA", 14, 24, "May", "April"),
              Hit("SPACE", 0, 12, "Student", "Name") >>),
    Text("pdf",
           "Student Name: Van Der Roe, Mary Ann Lee Page 2",
           << Hit("DVF", 0, 39, "Van Der Roe", "Mary Ann Lee"),
              Hit("COMMA", 22, 44, "Roe", "Mary Ann Lee Page"),
              Hit("SPACE", 0, 12, "Student", "Name"),
              Hit("SPACE", 14, 25, "Van", "Der Roe"),
              Hit("SPACE", 27, 44, "Mary", "Ann Lee Page") >>),
    Text("pdf",
           "Contact Person's Name: Smith, John",
           << Hit("COMMA", 23, 34, "Smith", "John"),
              Hit("SPACE", 0, 21, "Contact", "Person's Name") >>),
    Text("pdf",
           "Emergency contact Smith, John",
           << Hit("COMMA", 18, 29, "Smith", "John") >>),
    Text("pdf",
           "Roe; Mary",
           << Hit("SEMI", 0, 9, "Roe", "Mary") >>),
    Text("pdf",
           "Li, Wei Jr",
           << Hit("COMMA", 0, 10, "Li", "Wei Jr"),
              Hit("SPACE", 4, 10, "Wei", "Jr") >>),
    Text("pdf",
           "SMITH, JOHN",
           << Hit("COMMA", 0, 11, "SMITH", "JOHN") >>),
    Text("pdf",
           "School, Lower",
           << Hit("COMMA", 0, 13, "School", "Lower") >>),
    Text("pdf",
           "Doe, Jane School, Lower",
           << Hit("COMMA", 0, 16, "Doe", "Jane School"),
              Hit("SPACE", 5, 16, "Jane", "School") >>),
    Text("pdf",
           "Verification, Data",
           << Hit("COMMA", 0, 18, "Verification", "Data") >>),
    Text("pdf",
           "Wynn, Hannah E-mail",
           << Hit("COMMA", 0, 19, "Wynn", "Hannah E-mail"),
              Hit("SPACE", 6, 19, "Hannah", "E-mail") >>),
    Text("pdf",
           "Roe, Mary Ann Lee Kim",
           << Hit("COMMA", 0, 21, "Roe", "Mary Ann Lee Kim"),
              Hit("SPACE", 5, 21, "Mary", "Ann Lee Kim") >>),
    Text("pdf",
           "Van Roe, Mary",
           << Hit("COMMA", 4, 13, "Roe", "Mary"),
              Hit("SPACE", 0, 7, "Van", "Roe") >>),
    Text("pdf",
           "Mary Roe teacher Kim, Lee",
           << Hit("COMMA", 17, 25, "Kim", "Lee"),
              Hit("SPACE", 0, 8, "Mary", "Roe") >>),
    Text("pdf",
           "Guardian0123456789012345678901234567890123456789012345678901"
           \o "2345678901234567890 Roe, Mary",
           << Hit("COMMA", 80, 89, "Roe", "Mary") >>),
    Text("pdf",
           "Guardian0123456789012345678901234567890123456789012345678901"
           \o "23456789012345678901 Roe, Mary",
           << Hit("COMMA", 81, 90, "Roe", "Mary") >>),
    Text("pdf",
           "Roe, Mary 01234567890123456789012345678901234567890123456789"
           \o "01234567890123456789012Parent",
           << Hit("COMMA", 0, 9, "Roe", "Mary") >>),
    Text("pdf",
           "Roe, Mary 01234567890123456789012345678901234567890123456789"
           \o "012345678901234567890123Parent",
           << Hit("COMMA", 0, 9, "Roe", "Mary") >>),
    Text("pdf",
           "Roe, Mary 01234567890123456789012345678901234567890123456789"
           \o "0123456789 Address",
           << Hit("COMMA", 0, 9, "Roe", "Mary") >>),
    Text("pdf",
           "Roe, Mary 01234567890123456789012345678901234567890123456789"
           \o "0123456789 Addressee",
           << Hit("COMMA", 0, 9, "Roe", "Mary") >>),
    Text("pdf",
           "xForm 012345678901234567890123456789012345678901234567890123"
           \o "45678901234567890123 Roe, Mary",
           << Hit("COMMA", 81, 90, "Roe", "Mary") >>),
    Text("filename",
           "Hannah Wynn",
           << Hit("SPACE", 0, 11, "Hannah", "Wynn") >>),
    Text("filename",
           "Immunizations",
           << >>),
    Text("filename",
           "Doe, Jane",
           << Hit("COMMA", 0, 9, "Doe", "Jane") >>),
    Text("filename",
           "School Records",
           << Hit("SPACE", 0, 14, "School", "Records") >>),
    Text("filename",
           "Doe; Jane transcript",
           << Hit("SEMI", 0, 9, "Doe", "Jane") >>),
    Text("filename",
           "Mary Ann Roe Wynn, Hannah",
           << Hit("COMMA", 13, 25, "Wynn", "Hannah"),
              Hit("SPACE", 0, 17, "Mary", "Ann Roe Wynn") >>),
    Text("filename",
           "Li Wei",
           << Hit("SPACE", 0, 6, "Li", "Wei") >>),
    Text("filename",
           "JOHN SMITH",
           << Hit("SPACE", 0, 10, "JOHN", "SMITH") >>),
    Text("filename",
           "Doe, Jane",
           << Hit("COMMA", 0, 9, "Doe", "Jane") >>),
    Text("filename",
           "Kim, Lee Jr",
           << Hit("COMMA", 0, 11, "Kim", "Lee Jr"),
              Hit("SPACE", 5, 11, "Lee", "Jr") >>) }


\* texts of the shapes "Last, First", "Last; First", "First Last" and
\* "Student Name: Last, First" over name words, labels, stopwords and suffixes
PairTexts == {
    Text("pdf", "Roe, Mary",
         << Hit("COMMA", 0, 9, "Roe", "Mary") >>),
    Text("pdf", "Roe; Mary",
         << Hit("SEMI", 0, 9, "Roe", "Mary") >>),
    Text("filename", "Roe, Mary",
         << Hit("COMMA", 0, 9, "Roe", "Mary") >>),
    Text("pdf", "Roe, Mary Ann",
         << Hit("COMMA", 0, 13, "Roe", "Mary Ann"),
            Hit("SPACE", 5, 13, "Mary", "Ann") >>),
    Text("pdf", "Mary Ann Roe",
         << Hit("SPACE", 0, 12, "Mary", "Ann Roe") >>),
    Text("pdf", "Roe, MARY",
         << Hit("COMMA", 0, 9, "Roe", "MARY") >>),
    Text("pdf", "Student Name: Roe, MARY",
         << Hit("DVF", 0, 23, "Roe", "MARY"),
            Hit("COMMA", 14, 23, "Roe", "MARY"),
            Hit("SPACE", 0, 12, "Student", "Name") >>),
    Text("filename", "MARY Roe",
         << Hit("SPACE", 0, 8, "MARY", "Roe") >>),
    Text("pdf", "Roe, Jo",
         << Hit("COMMA", 0, 7, "Roe", "Jo") >>),
    Text("pdf", "Roe; Jo",
         << Hit("SEMI", 0, 7, "Roe", "Jo") >>),
    Text("filename", "Roe, Jo",
         << Hit("COMMA", 0, 7, "Roe", "Jo") >>),
    Text("pdf", "Roe, Data",
         << Hit("COMMA", 0, 9, "Roe", "Data") >>),
    Text("pdf", "Data Roe",
         << Hit("SPACE", 0, 8, "Data", "Roe") >>),
    Text("pdf", "Roe, Mary Form",
         << Hit("COMMA", 0, 14, "Roe", "Mary Form"),
            Hit("SPACE", 5, 14, "Mary", "Form") >>),
    Text("pdf", "Student Name: Roe, Mary Form",
         << Hit("DVF", 0, 28, "Roe", "Mary Form"),
            Hit("COMMA", 14, 28, "Roe", "Mary Form"),
            Hit("SPACE", 0, 12, "Student", "Name"),
            Hit("SPACE", 19, 28, "Mary", "Form") >>),
    Text("filename", "Mary Form Roe",
         << Hit("SPACE", 0, 13, "Mary", "Form Roe") >>),
    Text("pdf", "Roe, Mary Jr",
         << Hit("COMMA", 0, 12, "Roe", "Mary Jr"),
            Hit("SPACE", 5, 12, "Mary", "Jr") >>),
    Text("pdf", "Roe; Mary Jr",
         << Hit("SEMI", 0, 12, "Roe", "Mary Jr"),
            Hit("SPACE", 5, 12, "Mary", "Jr") >>),
    Text("filename", "Roe, Mary Jr",
         << Hit("COMMA", 0, 12, "Roe", "Mary Jr"),
            Hit("SPACE", 5, 12, "Mary", "Jr") >>),
    Text("pdf", "Roe, Mary Iowa",
         << Hit("COMMA", 0, 14, "Roe", "Mary Iowa"),
            Hit("SPACE", 5, 14, "Mary", "Iowa") >>),
    Text("pdf", "Mary Iowa Roe",
         << Hit("SPACE", 0, 13, "Mary", "Iowa Roe") >>),
    Text("pdf", "Roe, Mary Physical Exam",
         << Hit("COMMA", 0, 23, "Roe", "Mary Physical Exam"),
            Hit("SPACE", 5, 23, "Mary", "Physical Exam") >>),
    Text("pdf", "Student Name: Roe, Mary Physical Exam",
         << Hit("DVF", 0, 37, "Roe", "Mary Physical Exam"),
            Hit("COMMA", 14, 37, "Roe", "Mary Physical Exam"),
            Hit("SPACE", 0, 12, "Student", "Name"),
            Hit("SPACE", 19, 37, "Mary", "Physical Exam") >>),
    Text("filename", "Mary Physical Exam Roe",
         << Hit("SPACE", 0, 22, "Mary", "Physical Exam Roe") >>),
    Text("pdf", "ROE, Mary",
         << Hit("COMMA", 0, 9, "ROE", "Mary") >>),
    Text("pdf", "Mary ROE",
         << Hit("SPACE", 0, 8, "Mary", "ROE") >>),
    Text("filename", "Mary ROE",
         << Hit("SPACE", 0, 8, "Mary", "ROE") >>),
    Text("pdf", "ROE, Mary Ann",
         << Hit("COMMA", 0, 13, "ROE", "Mary Ann"),
            Hit("SPACE", 5, 13, "Mary", "Ann") >>),
    Text("pdf", "Student Name: ROE, Mary Ann",
         << Hit("DVF", 0, 27, "ROE", "Mary Ann"),
            Hit("COMMA", 14, 27, "ROE", "Mary Ann"),
            Hit("SPACE", 0, 12, "Student", "Name"),
            Hit("SPACE", 19, 27, "Mary", "Ann") >>),
    Text("filename", "ROE, Mary Ann",
         << Hit("COMMA", 0, 13, "ROE", "Mary Ann"),
            Hit("SPACE", 5, 13, "Mary", "Ann") >>),
    Text("pdf", "ROE, MARY",
         << Hit("COMMA", 0, 9, "ROE", "MARY") >>),
    Text("pdf", "ROE; MARY",
         << Hit("SEMI", 0, 9, "ROE", "MARY") >>),
    Text("pdf", "ROE, Jo",
         << Hit("COMMA", 0, 7, "ROE", "Jo") >>),
    Text("pdf", "Jo ROE",
         << Hit("SPACE", 0, 6, "Jo", "ROE") >>),
    Text("filename", "Jo ROE",
         << Hit("SPACE", 0, 6, "Jo", "ROE") >>),
    Text("pdf", "ROE, Data",
         << Hit("COMMA", 0, 9, "ROE", "Data") >>),
    Text("pdf", "Student Name: ROE, Data",
         << Hit("DVF", 0, 23, "ROE", "Data"),
            Hit("COMMA", 14, 23, "ROE", "Data"),
            Hit("SPACE", 0, 12, "Student", "Name") >>),
    Text("filename", "ROE, Data",
         << Hit("COMMA", 0, 9, "ROE", "Data") >>),
    Text("pdf", "ROE, Mary Form",
         << Hit("COMMA", 0, 14, "ROE", "Mary Form"),
            Hit("SPACE", 5, 14, "Mary", "Form") >>),
    Text("pdf", "ROE; Mary Form",
         << Hit("SEMI", 0, 14, "ROE", "Mary Form"),
            Hit("SPACE", 5, 14, "Mary", "Form") >>),
    Text("pdf", "ROE, Mary Jr",
         << Hit("COMMA", 0, 12, "ROE", "Mary Jr"),
            Hit("SPACE", 5, 12, "Mary", "Jr") >>),
    Text("pdf", "Mary Jr ROE",
         << Hit("SPACE", 0, 11, "Mary", "Jr ROE") >>),
    Text("filename", "Mary Jr ROE",
         << Hit("SPACE", 0, 11, "Mary", "Jr ROE") >>),
    Text("pdf", "ROE, Mary Iowa",
         << Hit("COMMA", 0, 14, "ROE", "Mary Iowa"),
            Hit("SPACE", 5, 14, "Mary", "Iowa") >>),
    Text("pdf", "Student Name: ROE, Mary Iowa",
         << Hit("DVF", 0, 28, "ROE", "Mary Iowa"),
            Hit("COMMA", 14, 28, "ROE", "Mary Iowa"),
            Hit("SPACE", 0, 12, "Student", "Name"),
            Hit("SPACE", 19, 28, "Mary", "Iowa") >>),
    Text("filename", "ROE, Mary",
         << Hit("COMMA", 0, 9, "ROE", "Mary") >>),
    Text("pdf", "ROE, Mary Physical Exam",
         << Hit("COMMA", 0, 23, "ROE", "Mary Physical Exam"),
            Hit("SPACE", 5, 23, "Mary", "Physical Exam") >>),
    Text("pdf", "ROE; Mary Physical Exam",
         << Hit("SEMI", 0, 23, "ROE", "Mary Physical Exam"),
            Hit("SPACE", 5, 23, "Mary", "Physical Exam") >>),
    Text("pdf", "Li, Mary",
         << Hit("COMMA", 0, 8, "Li", "Mary") >>),
    Text("pdf", "Student Name: Li, Mary",
         << Hit("DVF", 0, 22, "Li", "Mary"),
            Hit("COMMA", 14, 22, "Li", "Mary"),
            Hit("SPACE", 0, 12, "Student", "Name") >>),
    Text("pdf", "Li, Mary Ann",
         << Hit("COMMA", 0, 12, "Li", "Mary Ann"),
            Hit("SPACE", 4, 12, "Mary", "Ann") >>),
    Text("pdf", "Li; Mary Ann",
         << Hit("SEMI", 0, 12, "Li", "Mary Ann"),
            Hit("SPACE", 4, 12, "Mary", "Ann") >>),
    Text("filename", "Mary Ann Li",
         << Hit("SPACE", 0, 11, "Mary", "Ann Li") >>),
    Text("pdf", "Li, MARY",
         << Hit("COMMA", 0, 8, "Li", "MARY") >>),
    Text("pdf", "MARY Li",
         << Hit("SPACE", 0, 7, "MARY", "Li") >>),
    Text("filename", "Li, MARY",
         << Hit("COMMA", 0, 8, "Li", "MARY") >>),
    Text("pdf", "Li, Jo",
         << Hit("COMMA", 0, 6, "Li", "Jo") >>),
    Text("pdf", "Student Name: Li, Jo",
         << Hit("DVF", 0, 20, "Li", "Jo"),
            Hit("COMMA", 14, 20, "Li", "Jo"),
            Hit("SPACE", 0, 12, "Student", "Name") >>),
    Text("pdf", "Li, Data",
         << Hit("COMMA", 0, 8, "Li", "Data") >>),
    Text("pdf", "Li; Data",
         << Hit("SEMI", 0, 8, "Li", "Data") >>),
    Text("filename", "Data Li",
         << Hit("SPACE", 0, 7, "Data", "Li") >>),
    Text("pdf", "Li, Mary Form",
         << Hit("COMMA", 0, 13, "Li", "Mary Form"),
            Hit("SPACE", 4, 13, "Mary", "Form") >>),
    Text("pdf", "Mary Form Li",
         << Hit("SPACE", 0, 12, "Mary", "Form Li") >>),
    Text("filename", "Li, Mary Form",
         << Hit("COMMA", 0, 13, "Li", "Mary Form"),
            Hit("SPACE", 4, 13, "Mary", "Form") >>),
    Text("pdf", "Li, Mary Jr",
         << Hit("COMMA", 0, 11, "Li", "Mary Jr"),
            Hit("SPACE", 4, 11, "Mary", "Jr") >>),
    Text("pdf", "Student Name: Li, Mary Jr",
         << Hit("DVF", 0, 25, "Li", "Mary Jr"),
            Hit("COMMA", 14, 25, "Li", "Mary Jr"),
            Hit("SPACE", 0, 12, "Student", "Name"),
            Hit("SPACE", 18, 25, "Mary", "Jr") >>),
    Text("pdf", "Li, Mary Iowa",
         << Hit("COMMA", 0, 13, "Li", "Mary Iowa"),
            Hit("SPACE", 4, 13, "Mary", "Iowa") >>),
    Text("pdf", "Li; Mary Iowa",
         << Hit("SEMI", 0, 13, "Li", "Mary Iowa"),
            Hit("SPACE", 4, 13, "Mary", "Iowa") >>),
    Text("filename", "Mary Li",
         << Hit("SPACE", 0, 7, "Mary", "Li") >>),
    Text("pdf", "Li, Mary Physical Exam",
         << Hit("COMMA", 0, 22, "Li", "Mary Physical Exam"),
            Hit("SPACE", 4, 22, "Mary", "Physical Exam") >>),
    Text("pdf", "Mary Physical Exam Li",
         << Hit("SPACE", 0, 21, "Mary", "Physical Exam Li") >>),
    Text("filename", "Li, Mary Physical Exam",
         << Hit("COMMA", 0, 22, "Li", "Mary Physical Exam"),
            Hit("SPACE", 4, 22, "Mary", "Physical Exam") >>),
    Text("pdf", "O'Neil, Mary",
         << Hit("COMMA", 0, 12, "O'Neil", "Mary") >>),
    Text("pdf", "O'Neil; Mary",
         << Hit("SEMI", 0, 12, "O'Neil", "Mary") >>),
    Text("filename", "O'Neil, Mary",
         << Hit("COMMA", 0, 12, "O'Neil", "Mary") >>),
    Text("pdf", "O'Neil, Mary Ann",
         << Hit("COMMA", 0, 16, "O'Neil", "Mary Ann"),
            Hit("SPACE", 8, 16, "Mary", "Ann") >>),
    Text("pdf", "Mary Ann O'Neil",
         << Hit("SPACE", 0, 15, "Mary", "Ann O'Neil") >>),
    Text("pdf", "O'Neil, MARY",
         << Hit("COMMA", 0, 12, "O'Neil", "MARY") >>),
    Text("pdf", "Student Name: O'Neil, MARY",
         << Hit("DVF", 0, 26, "O'Neil", "MARY"),
            Hit("COMMA", 14, 26, "O'Neil", "MARY"),
            Hit("SPACE", 0, 12, "Student", "Name") >>),
    Text("filename", "MARY O'Neil",
         << Hit("SPACE", 0, 11, "MARY", "O'Neil") >>),
    Text("pdf", "O'Neil, Jo",
         << Hit("COMMA", 0, 10, "O'Neil", "Jo") >>),
    Text("pdf", "O'Neil; Jo",
         << Hit("SEMI", 0, 10, "O'Neil", "Jo") >>),
    Text("filename", "O'Neil, Jo",
         << Hit("COMMA", 0, 10, "O'Neil", "Jo") >>),
    Text("pdf", "O'Neil, Data",
         << Hit("COMMA", 0, 12, "O'Neil", "Data") >>),
    Text("pdf", "Data O'Neil",
         << Hit("SPACE", 0, 11, "Data", "O'Neil") >>),
    Text("pdf", "O'Neil, Mary Form",
         << Hit("COMMA", 0, 17, "O'Neil", "Mary Form"),
            Hit("SPACE", 8, 17, "Mary", "Form") >>),
    Text("pdf", "Student Name: O'Neil, Mary Form",
         << Hit("DVF", 0, 31, "O'Neil", "Mary Form"),
            Hit("COMMA", 14, 31, "O'Neil", "Mary Form"),
            Hit("SPACE", 0, 12, "Student", "Name"),
            Hit("SPACE", 22, 31, "Mary", "Form") >>),
    Text("filename", "Mary Form O'Neil",
         << Hit("SPACE", 0, 16, "Mary", "Form O'Neil") >>),
    Text("pdf", "O'Neil, Mary Jr",
         << Hit("COMMA", 0, 15, "O'Neil", "Mary Jr"),
            Hit("SPACE", 8, 15, "Mary", "Jr") >>),
    Text("pdf", "O'Neil; Mary Jr",
         << Hit("SEMI", 0, 15, "O'Neil", "Mary Jr"),
            Hit("SPACE", 8, 15, "Mary", "Jr") >>),
    Text("filename", "O'Neil, Mary Jr",
         << Hit("COMMA", 0, 15, "O'Neil", "Mary Jr"),
            Hit("SPACE", 8, 15, "Mary", "Jr") >>),
    Text("pdf", "O'Neil, Mary Iowa",
         << Hit("COMMA", 0, 17, "O'Neil", "Mary Iowa"),
            Hit("SPACE", 8, 17, "Mary", "Iowa") >>),
    Text("pdf", "Mary Iowa O'Neil",
         << Hit("SPACE", 0, 16, "Mary", "Iowa O'Neil") >>),
    Text("pdf", "O'Neil, Mary Physical Exam",
         << Hit("COMMA", 0, 26, "O'Neil", "Mary Physical Exam"),
            Hit("SPACE", 8, 26, "Mary", "Physical Exam") >>),
    Text("pdf", "Student Name: O'Neil, Mary Physical Exam",
         << Hit("DVF", 0, 40, "O'Neil", "Mary Physical Exam"),
            Hit("COMMA", 14, 40, "O'Neil", "Mary Physical Exam"),
            Hit("SPACE", 0, 12, "Student", "Name"),
            Hit("SPACE", 22, 40, "Mary", "Physical Exam") >>),
    Text("filename", "Mary Physical Exam O'Neil",
         << Hit("SPACE", 0, 25, "Mary", "Physical Exam O'Neil") >>),
    Text("pdf", "Smith-Jones, Mary",
         << Hit("COMMA", 0, 17, "Smith-Jones", "Mary") >>),
    Text("pdf", "Mary Smith-Jones",
         << Hit("SPACE", 0, 16, "Mary", "Smith-Jones") >>),
    Text("filename", "Mary Smith Jones",
         << Hit("SPACE", 0, 16, "Mary", "Smith Jones") >>),
    Text("pdf", "Smith-Jones, Mary Ann",
         << Hit("COMMA", 0, 21, "Smith-Jones", "Mary Ann"),
            Hit("SPACE", 13, 21, "Mary", "Ann") >>),
    Text("pdf", "Student Name: Smith-Jones, Mary Ann",
         << Hit("DVF", 0, 35, "Smith-Jones", "Mary Ann"),
            Hit("COMMA", 14, 35, "Smith-Jones", "Mary Ann"),
            Hit("SPACE", 0, 12, "Student", "Name"),
            Hit("SPACE", 27, 35, "Mary", "Ann") >>),
    Text("filename", "Smith Jones, Mary Ann",
         << Hit("COMMA", 6, 21, "Jones", "Mary Ann"),
            Hit("SPACE", 0, 11, "Smith", "Jones"),
            Hit("SPACE", 13, 21, "Mary", "Ann") >>),
    Text("pdf", "Smith-Jones, MARY",
         << Hit("COMMA", 0, 17, "Smith-Jones", "MARY") >>),
    Text("pdf", "Smith-Jones; MARY",
         << Hit("SEMI", 0, 17, "Smith-Jones", "MARY") >>),
    Text("pdf", "Smith-Jones, Jo",
         << Hit("COMMA", 0, 15, "Smith-Jones", "Jo") >>),
    Text("pdf", "Jo Smith-Jones",
         << Hit("SPACE", 0, 14, "Jo", "Smith-Jones") >>),
    Text("filename", "Jo Smith Jones",
         << Hit("SPACE", 0, 14, "Jo", "Smith Jones") >>),
    Text("pdf", "Smith-Jones, Data",
         << Hit("COMMA", 0, 17, "Smith-Jones", "Data") >>),
    Text("pdf", "Student Name: Smith-Jones, Data",
         << Hit("DVF", 0, 31, "Smith-Jones", "Data"),
            Hit("COMMA", 14, 31, "Smith-Jones", "Data"),
            Hit("SPACE", 0, 12, "Student", "Name") >>),
    Text("filename", "Smith Jones, Data",
         << Hit("COMMA", 6, 17, "Jones", "Data"),
            Hit("SPACE", 0, 11, "Smith", "Jones") >>),
    Text("pdf", "Smith-Jones, Mary Form",
         << Hit("COMMA", 0, 22, "Smith-Jones", "Mary Form"),
            Hit("SPACE", 13, 22, "Mary", "Form") >>),
    Text("pdf", "Smith-Jones; Mary Form",
         << Hit("SEMI", 0, 22, "Smith-Jones", "Mary Form"),
            Hit("SPACE", 13, 22, "Mary", "Form") >>),
    Text("pdf", "Smith-Jones, Mary Jr",
         << Hit("COMMA", 0, 20, "Smith-Jones", "Mary Jr"),
            Hit("SPACE", 13, 20, "Mary", "Jr") >>),
    Text("pdf", "Mary Jr Smith-Jones",
         << Hit("SPACE", 0, 19, "Mary", "Jr Smith-Jones") >>),
    Text("filename", "Mary Jr Smith Jones",
         << Hit("SPACE", 0, 19, "Mary", "Jr Smith Jones") >>),
    Text("pdf", "Smith-Jones, Mary Iowa",
         << Hit("COMMA", 0, 22, "Smith-Jones", "Mary Iowa"),
            Hit("SPACE", 13, 22, "Mary", "Iowa") >>),
    Text("pdf", "Student Name: Smith-Jones, Mary Iowa",
         << Hit("DVF", 0, 36, "Smith-Jones", "Mary Iowa"),
            Hit("COMMA", 14, 36, "Smith-Jones", "Mary Iowa"),
            Hit("SPACE", 0, 12, "Student", "Name"),
            Hit("SPACE", 27, 36, "Mary", "Iowa") >>),
    Text("filename", "Smith Jones, Mary",
         << Hit("COMMA", 6, 17, "Jones", "Mary"),
            Hit("SPACE", 0, 11, "Smith", "Jones") >>),
    Text("pdf", "Smith-Jones, Mary Physical Exam",
         << Hit("COMMA", 0, 31, "Smith-Jones", "Mary Physical Exam"),
            Hit("SPACE", 13, 31, "Mary", "Physical Exam") >>),
    Text("pdf", "Smith-Jones; Mary Physical Exam",
         << Hit("SEMI", 0, 31, "Smith-Jones", "Mary Physical Exam"),
            Hit("SPACE", 13, 31, "Mary", "Physical Exam") >>),
    Text("pdf", "School, Mary",
         << Hit("COMMA", 0, 12, "School", "Mary") >>),
    Text("pdf", "Student Name: School, Mary",
         << Hit("DVF", 0, 26, "School", "Mary"),
            Hit("COMMA", 14, 26, "School", "Mary"),
            Hit("SPACE", 0, 12, "Student", "Name") >>),
    Text("pdf", "School, Mary Ann",
         << Hit("COMMA", 0, 16, "School", "Mary Ann"),
            Hit("SPACE", 8, 16, "Mary", "Ann") >>),
    Text("pdf", "School; Mary Ann",
         << Hit("SEMI", 0, 16, "School", "Mary Ann"),
            Hit("SPACE", 8, 16, "Mary", "Ann") >>),
    Text("filename", "Mary Ann School",
         << Hit("SPACE", 0, 15, "Mary", "Ann School") >>),
    Text("pdf", "School, MARY",
         << Hit("COMMA", 0, 12, "School", "MARY") >>),
    Text("pdf", "MARY School",
         << Hit("SPACE", 0, 11, "MARY", "School") >>),
    Text("filename", "School, MARY",
         << Hit("COMMA", 0, 12, "School", "MARY") >>),
    Text("pdf", "School, Jo",
         << Hit("COMMA", 0, 10, "School", "Jo") >>),
    Text("pdf", "Student Name: School, Jo",
         << Hit("DVF", 0, 24, "School", "Jo"),
            Hit("COMMA", 14, 24, "School", "Jo"),
            Hit("SPACE", 0, 12, "Student", "Name") >>),
    Text("pdf", "School, Data",
         << Hit("COMMA", 0, 12, "School", "Data") >>),
    Text("pdf", "School; Data",
         << Hit("SEMI", 0, 12, "School", "Data") >>),
    Text("filename", "Data School",
         << Hit("SPACE", 0, 11, "Data", "School") >>),
    Text("pdf", "School, Mary Form",
         << Hit("COMMA", 0, 17, "School", "Mary Form"),
            Hit("SPACE", 8, 17, "Mary", "Form") >>),
    Text("pdf", "Mary Form School",
         << Hit("SPACE", 0, 16, "Mary", "Form School") >>),
    Text("filename", "School, Mary Form",
         << Hit("COMMA", 0, 17, "School", "Mary Form"),
            Hit("SPACE", 8, 17, "Mary", "Form") >>),
    Text("pdf", "School, Mary Jr",
         << Hit("COMMA", 0, 15, "School", "Mary Jr"),
            Hit("SPACE", 8, 15, "Mary", "Jr") >>),
    Text("pdf", "Student Name: School, Mary Jr",
         << Hit("DVF", 0, 29, "School", "Mary Jr"),
            Hit("COMMA", 14, 29, "School", "Mary Jr"),
            Hit("SPACE", 0, 12, "Student", "Name"),
            Hit("SPACE", 22, 29, "Mary", "Jr") >>),
    Text("pdf", "School, Mary Iowa",
         << Hit("COMMA", 0, 17, "School", "Mary Iowa"),
            Hit("SPACE", 8, 17, "Mary", "Iowa") >>),
    Text("pdf", "School; Mary Iowa",
         << Hit("SEMI", 0, 17, "School", "Mary Iowa"),
            Hit("SPACE", 8, 17, "Mary", "Iowa") >>),
    Text("filename", "Mary School",
         << Hit("SPACE", 0, 11, "Mary", "School") >>),
    Text("pdf", "School, Mary Physical Exam",
         << Hit("COMMA", 0, 26, "School", "Mary Physical Exam"),
            Hit("SPACE", 8, 26, "Mary", "Physical Exam") >>),
    Text("pdf", "Mary Physical Exam School",
         << Hit("SPACE", 0, 25, "Mary", "Physical Exam School") >>),
    Text("filename", "School, Mary Physical Exam",
         << Hit("COMMA", 0, 26, "School", "Mary Physical Exam"),
            Hit("SPACE", 8, 26, "Mary", "Physical Exam") >>),
    Text("pdf", "Verification, Mary",
         << Hit("COMMA", 0, 18, "Verification", "Mary") >>),
    Text("pdf", "Verification; Mary",
         << Hit("SEMI", 0, 18, "Verification", "Mary") >>),
    Text("filename", "Verification, Mary",
         << Hit("COMMA", 0, 18, "Verification", "Mary") >>),
    Text("pdf", "Verification, Mary Ann",
         << Hit("COMMA", 0, 22, "Verification", "Mary Ann"),
            Hit("SPACE", 14, 22, "Mary", "Ann") >>),
    Text("pdf", "Mary Ann Verification",
         << Hit("SPACE", 0, 21, "Mary", "Ann Verification") >>),
    Text("pdf", "Verification, MARY",
         << Hit("COMMA", 0, 18, "Verification", "MARY") >>),
    Text("pdf", "Student Name: Verification, MARY",
         << Hit("DVF", 0, 32, "Verification", "MARY"),
            Hit("COMMA", 14, 32, "Verification", "MARY"),
            Hit("SPACE", 0, 12, "Student", "Name") >>),
    Text("filename", "MARY Verification",
         << Hit("SPACE", 0, 17, "MARY", "Verification") >>),
    Text("pdf", "Verification, Jo",
         << Hit("COMMA", 0, 16, "Verification", "Jo") >>),
    Text("pdf", "Verification; Jo",
         << Hit("SEMI", 0, 16, "Verification", "Jo") >>),
    Text("filename", "Verification, Jo",
         << Hit("COMMA", 0, 16, "Verification", "Jo") >>),
    Text("pdf", "Verification, Data",
         << Hit("COMMA", 0, 18, "Verification", "Data") >>),
    Text("pdf", "Data Verification",
         << Hit("SPACE", 0, 17, "Data", "Verification") >>),
    Text("pdf", "Verification, Mary Form",
         << Hit("COMMA", 0, 23, "Verification", "Mary Form"),
            Hit("SPACE", 14, 23, "Mary", "Form") >>),
    Text("pdf", "Student Name: Verification, Mary Form",
         << Hit("DVF", 0, 37, "Verification", "Mary Form"),
            Hit("COMMA", 14, 37, "Verification", "Mary Form"),
            Hit("SPACE", 0, 12, "Student", "Name"),
            Hit("SPACE", 28, 37, "Mary", "Form") >>),
    Text("filename", "Mary Form Verification",
         << Hit("SPACE", 0, 22, "Mary", "Form Verification") >>),
    Text("pdf", "Verification, Mary Jr",
         << Hit("COMMA", 0, 21, "Verification", "Mary Jr"),
            Hit("SPACE", 14, 21, "Mary", "Jr") >>),
    Text("pdf", "Verification; Mary Jr",
         << Hit("SEMI", 0, 21, "Verification", "Mary Jr"),
            Hit("SPACE", 14, 21, "Mary", "Jr") >>),
    Text("filename", "Verification, Mary Jr",
         << Hit("COMMA", 0, 21, "Verification", "Mary Jr"),
            Hit("SPACE", 14, 21, "Mary", "Jr") >>),
    Text("pdf", "Verification, Mary Iowa",
         << Hit("COMMA", 0, 23, "Verification", "Mary Iowa"),
            Hit("SPACE", 14, 23, "Mary", "Iowa") >>),
    Text("pdf", "Mary Iowa Verification",
         << Hit("SPACE", 0, 22, "Mary", "Iowa Verification") >>),
    Text("pdf", "Verification, Mary Physical Exam",
         << Hit("COMMA", 0, 32, "Verification", "Mary Physical Exam"),
            Hit("SPACE", 14, 32, "Mary", "Physical Exam") >>),
    Text("pdf", "Student Name: Verification, Mary Physical Exam",
         << Hit("DVF", 0, 46, "Verification", "Mary Physical Exam"),
            Hit("COMMA", 14, 46, "Verification", "Mary Physical Exam"),
            Hit("SPACE", 0, 12, "Student", "Name"),
            Hit("SPACE", 28, 46, "Mary", "Physical Exam") >>),
    Text("filename", "Mary Physical Exam Verification",
         << Hit("SPACE", 0, 31, "Mary", "Physical Exam Verification") >>),
    Text("pdf", "Jr, Mary",
         << Hit("COMMA", 0, 8, "Jr", "Mary") >>),
    Text("pdf", "Mary Jr",
         << Hit("SPACE", 0, 7, "Mary", "Jr") >>),
    Text("filename", "Mary Jr",
         << Hit("SPACE", 0, 7, "Mary", "Jr") >>),
    Text("pdf", "Jr, Mary Ann",
         << Hit("COMMA", 0, 12, "Jr", "Mary Ann"),
            Hit("SPACE", 4, 12, "Mary", "Ann") >>),
    Text("pdf", "Student Name: Jr, Mary Ann",
         << Hit("DVF", 0, 26, "Jr", "Mary Ann"),
            Hit("COMMA", 14, 26, "Jr", "Mary Ann"),
            Hit("SPACE", 0, 12, "Student", "Name"),
            Hit("SPACE", 18, 26, "Mary", "Ann") >>),
    Text("filename", "Jr, Mary Ann",
         << Hit("COMMA", 0, 12, "Jr", "Mary Ann"),
            Hit("SPACE", 4, 12, "Mary", "Ann") >>),
    Text("pdf", "Jr, MARY",
         << Hit("COMMA", 0, 8, "Jr", "MARY") >>),
    Text("pdf", "Jr; MARY",
         << Hit("SEMI", 0, 8, "Jr", "MARY") >>),
    Text("pdf", "Jr, Jo",
         << Hit("COMMA", 0, 6, "Jr", "Jo") >>),
    Text("pdf", "Jo Jr",
         << Hit("SPACE", 0, 5, "Jo", "Jr") >>),
    Text("filename", "Jo Jr",
         << Hit("SPACE", 0, 5, "Jo", "Jr") >>),
    Text("pdf", "Jr, Data",
         << Hit("COMMA", 0, 8, "Jr", "Data") >>),
    Text("pdf", "Student Name: Jr, Data",
         << Hit("DVF", 0, 22, "Jr", "Data"),
            Hit("COMMA", 14, 22, "Jr", "Data"),
            Hit("SPACE", 0, 12, "Student", "Name") >>),
    Text("filename", "Jr, Data",
         << Hit("COMMA", 0, 8, "Jr", "Data") >>),
    Text("pdf", "Jr, Mary Form",
         << Hit("COMMA", 0, 13, "Jr", "Mary Form"),
            Hit("SPACE", 4, 13, "Mary", "Form") >>),
    Text("pdf", "Jr; Mary Form",
         << Hit("SEMI", 0, 13, "Jr", "Mary Form"),
            Hit("SPACE", 4, 13, "Mary", "Form") >>),
    Text("pdf", "Jr, Mary Jr",
         << Hit("COMMA", 0, 11, "Jr", "Mary Jr"),
            Hit("SPACE", 4, 11, "Mary", "Jr") >>),
    Text("pdf", "Mary Jr Jr",
         << Hit("SPACE", 0, 10, "Mary", "Jr Jr") >>),
    Text("filename", "Mary Jr Jr",
         << Hit("SPACE", 0, 10, "Mary", "Jr Jr") >>),
    Text("pdf", "Jr, Mary Iowa",
         << Hit("COMMA", 0, 13, "Jr", "Mary Iowa"),
            Hit("SPACE", 4, 13, "Mary", "Iowa") >>),
    Text("pdf", "Student Name: Jr, Mary Iowa",
         << Hit("DVF", 0, 27, "Jr", "Mary Iowa"),
            Hit("COMMA", 14, 27, "Jr", "Mary Iowa"),
            Hit("SPACE", 0, 12, "Student", "Name"),
            Hit("SPACE", 18, 27, "Mary", "Iowa") >>),
    Text("filename", "Jr, Mary",
         << Hit("COMMA", 0, 8, "Jr", "Mary") >>),
    Text("pdf", "Jr, Mary Physical Exam",
         << Hit("COMMA", 0, 22, "Jr", "Mary Physical Exam"),
            Hit("SPACE", 4, 22, "Mary", "Physical Exam") >>),
    Text("pdf", "Jr; Mary Physical Exam",
         << Hit("SEMI", 0, 22, "Jr", "Mary Physical Exam"),
            Hit("SPACE", 4, 22, "Mary", "Physical Exam") >>),
    Text("pdf", "Email, Mary",
         << Hit("COMMA", 0, 11, "Email", "Mary") >>),
    Text("pdf", "Student Name: Email, Mary",
         << Hit("DVF", 0, 25, "Email", "Mary"),
            Hit("COMMA", 14, 25, "Email", "Mary"),
            Hit("SPACE", 0, 12, "Student", "Name") >>),
    Text("pdf", "Email, Mary Ann",
         << Hit("COMMA", 0, 15, "Email", "Mary Ann"),
            Hit("SPACE", 7, 15, "Mary", "Ann") >>),
    Text("pdf", "Email; Mary Ann",
         << Hit("SEMI", 0, 15, "Email", "Mary Ann"),
            Hit("SPACE", 7, 15, "Mary", "Ann") >>),
    Text("filename", "Mary Ann Email",
         << Hit("SPACE", 0, 14, "Mary", "Ann Email") >>),
    Text("pdf", "Email, MARY",
         << Hit("COMMA", 0, 11, "Email", "MARY") >>),
    Text("pdf", "MARY Email",
         << Hit("SPACE", 0, 10, "MARY", "Email") >>),
    Text("filename", "Email, MARY",
         << Hit("COMMA", 0, 11, "Email", "MARY") >>),
    Text("pdf", "Email, Jo",
         << Hit("COMMA", 0, 9, "Email", "Jo") >>),
    Text("pdf", "Student Name: Email, Jo",
         << Hit("DVF", 0, 23, "Email", "Jo"),
            Hit("COMMA", 14, 23, "Email", "Jo"),
            Hit("SPACE", 0, 12, "Student", "Name") >>),
    Text("pdf", "Email, Data",
         << Hit("COMMA", 0, 11, "Email", "Data") >>),
    Text("pdf", "Email; Data",
         << Hit("SEMI", 0, 11, "Email", "Data") >>),
    Text("filename", "Data Email",
         << Hit("SPACE", 0, 10, "Data", "Email") >>),
    Text("pdf", "Email, Mary Form",
         << Hit("COMMA", 0, 16, "Email", "Mary Form"),
            Hit("SPACE", 7, 16, "Mary", "Form") >>),
    Text("pdf", "Mary Form Email",
         << Hit("SPACE", 0, 15, "Mary", "Form Email") >>),
    Text("filename", "Email, Mary Form",
         << Hit("COMMA", 0, 16, "Email", "Mary Form"),
            Hit("SPACE", 7, 16, "Mary", "Form") >>),
    Text("pdf", "Email, Mary Jr",
         << Hit("COMMA", 0, 14, "Email", "Mary Jr"),
            Hit("SPACE", 7, 14, "Mary", "Jr") >>),
    Text("pdf", "Student Name: Email, Mary Jr",
         << Hit("DVF", 0, 28, "Email", "Mary Jr"),
            Hit("COMMA", 14, 28, "Email", "Mary Jr"),
            Hit("SPACE", 0, 12, "Student", "Name"),
            Hit("SPACE", 21, 28, "Mary", "Jr") >>),
    Text("pdf", "Email, Mary Iowa",
         << Hit("COMMA", 0, 16, "Email", "Mary Iowa"),
            Hit("SPACE", 7, 16, "Mary", "Iowa") >>),
    Text("pdf", "Email; Mary Iowa",
         << Hit("SEMI", 0, 16, "Email", "Mary Iowa"),
            Hit("SPACE", 7, 16, "Mary", "Iowa") >>),
    Text("filename", "Mary Email",
         << Hit("SPACE", 0, 10, "Mary", "Email") >>),
    Text("pdf", "Email, Mary Physical Exam",
         << Hit("COMMA", 0, 25, "Email", "Mary Physical Exam"),
            Hit("SPACE", 7, 25, "Mary", "Physical Exam") >>),
    Text("pdf", "Mary Physical Exam Email",
         << Hit("SPACE", 0, 24, "Mary", "Physical Exam Email") >>),
    Text("filename", "Email, Mary Physical Exam",
         << Hit("COMMA", 0, 25, "Email", "Mary Physical Exam"),
            Hit("SPACE", 7, 25, "Mary", "Physical Exam") >>) }

-----------------------------------------------------------------------------
(* Reading a PDF                                                            *)

\* r.pages[:max_pages], less the pages whose extract_text() raises
\* r.pages[:max_pages] raises: the for statement of pdf_text is in no try
\* block, so the exception leaves pdf_text and the call has no value
PagesRaise(pdf) == pdf.readable /\ ~ pdf.listable

ReadPages(pdf) ==
    LET n == IF Len(pdf.pages) < MAX_PDF_PAGES THEN Len(pdf.pages) ELSE MAX_PDF_PAGES
    IN  SelectSeq(SubSeq(pdf.pages, 1, n), LAMBDA p : p.ok)

pdf_text(pdf) ==
    IF ~ pdf.readable THEN ""
    ELSE LET ps == ReadPages(pdf)
         IN  collapse_ws(str_join(" ", [ i \in 1..Len(ps) |-> ps[i].text ]))

\* The matches on pdf_text(pdf): those of the pages read, each moved by the
\* offset of its page in the blob (blank pages leave nothing in the blob).
RECURSIVE ShiftHits(_, _)
ShiftHits(ps, off) ==
    IF ps = << >> THEN << >>
    ELSE LET p == Head(ps)
         IN  IF p.text = "" THEN ShiftHits(Tail(ps), off)
             ELSE [ i \in 1..Len(p.hits) |->
                      [ p.hits[i] EXCEPT !.start = @ + off, !.end = @ + off ] ]
                  \o ShiftHits(Tail(ps), off + Len(p.text) + 1)

BlobHits(pdf) ==
    IF ~ pdf.readable \/ PagesRaise(pdf) THEN << >> ELSE ShiftHits(ReadPages(pdf), 0)

\* f.suffix.lower() == ".pdf"
IsPdfName(name) == Len(name) > 4 /\ AtI(name, Len(name) - 4, ".pdf")

-----------------------------------------------------------------------------
(* The ROOT directory                                                       *)

\* bounds of the model
MaxRuns == 2        \* invocations of main()
MaxTaken == 2       \* disambiguators (1)..(MaxTaken) that may be taken at the start
MaxFaulted == 1     \* calls of safe_rename in which the operating system refuses

Entry(dir, c, ino) == [ dir |-> dir, c |-> c, ino |-> ino ]

\* the files of the folder with content index c (0: an empty directory)
FilesOf(c) == IF c = 0 THEN << >> ELSE Contents[c]

FolderA == "12305932"
FolderB == "12345678"

\* ID8.match in place of ID8.fullmatch: eight digits at the start of the name
ID8_Match(name) == Len(name) >= 8 /\ \A i \in 1..8 : Ch(name, i) \in DigitSet

\* ID8.fullmatch(name)
ID8(name) == Len(name) = 8 /\ \A i \in 1..8 : Ch(name, i) \in DigitSet

\* a destination name without the folder's own name
target_name_NoId(id8, last_first) == last_first[1] \o ", " \o last_first[2]

target_name(id8, last_first) == id8 \o " - " \o last_first[1] \o ", " \o last_first[2]

\* f"{new_base} ({i})"
WithNumber(new_base, i) == new_base \o " (" \o str_int(i) \o ")"

\* a collision loop that stops at " (1)" whether or not the name is free
FirstFree_Once(names, new_base) == 1

\* a collision loop that takes a number beyond every entry
FirstFree_Beyond(names, new_base) == Cardinality(names) + 1

\* the value of i when the while loop of safe_rename ends
FirstFree(names, new_base) ==
    CHOOSE i \in 1..(Cardinality(names) + 1) :
        /\ WithNumber(new_base, i) \notin names
        /\ \A j \in 1..(i - 1) : WithNumber(new_base, j) \in names

\* a rename that makes the destination anew instead of moving the folder: the
\* entries of the folder are not under the new name
Renamed_Fresh(f, old, new) ==
    [ n \in (DOMAIN f \ { old }) \cup { new } |->
        IF n = new THEN [ f[old] EXCEPT !.c = 0 ] ELSE f[n] ]

\* folder.rename(target) carried out by the operating system
Renamed(f, old, new) ==
    [ n \in (DOMAIN f \ { old }) \cup { new } |-> IF n = new THEN f[old] ELSE f[n] ]

\* every (last, first) some file name or some PDF of content c can yield
KeysOf(c) ==
    LET fl == FilesOf(c)
    IN  UNION { { Key(x) : x \in Range(candidates_from_filename(fl[i].hits)) }
                \cup { Key(x) : x \in Range(candidates_from_pdf(pdf_text(fl[i]), BlobHits(fl[i]))) }
                : i \in 1..Len(fl) }

\* the candidates of every file of every content, computed once
NameCandsOf == [ c \in 1..Len(Contents) |->
                   [ i \in 1..Len(Contents[c]) |-> candidates_from_filename(Contents[c][i].hits) ] ]
PdfCandsOf == [ c \in 1..Len(Contents) |->
                  [ i \in 1..Len(Contents[c]) |->
                      candidates_from_pdf(pdf_text(Contents[c][i]), BlobHits(Contents[c][i])) ] ]

\* names taken at the start: new_base itself (0) and numbered variants
TakenName(new_base, i) == IF i = 0 THEN new_base ELSE WithNumber(new_base, i)

\* the sets of taken names the root starts with: the first n of "<base>",
\* "<base> (1)", ..., and the same with "<base> (1)" left free
TakenSets == { 0..(n - 1) : n \in 0..(MaxTaken + 1) } \cup { (0..MaxTaken) \ { 1 } }



\* The ROOT directory at the start: the two student folders, a file with an
\* 8-digit name, a directory with another name and, for every name k that the
\* first folder can yield and every i in taken, an entry that occupies
\* "<id8> - <k>" (i = 0) or "<id8> - <k> (i)".
InitRoot(ca, taken) ==
    LET occupied == { << k, i >> : k \in KeysOf(ca), i \in taken }
        name(o)  == TakenName(target_name(FolderA, o[1]), o[2])
    IN  ( FolderA :> Entry(TRUE, ca, 1) ) @@ ( FolderB :> Entry(TRUE, 1, 2) )
        @@ ( "00000000" :> Entry(FALSE, 0, 3) ) @@ ( "archive" :> Entry(TRUE, 0, 4) )
        @@ [ n \in { name(o) : o \in occupied } |-> Entry(TRUE, 0, 5) ]

\* a terminal report line; why tells the two [FAIL] messages apart
Line(r, tag, folder, to, why) ==
    [ run |-> r, tag |-> tag, folder |-> folder, to |-> to, why |-> why ]

NoText == Text("none", "", << >>)


-----------------------------------------------------------------------------
(* main(), derive_name_for_folder() and safe_rename() as a state machine     *)

\* what folder.rename(target) raises as PermissionError: the folder or a file
\* in it is in use by another process (it passes), or the account is not
\* permitted to rename the folder (it does not pass: every attempt meets it)
NoError == "None"
InUse == "PermissionError: in use by another process"
Denied == "PermissionError: not permitted"
PermissionErrors == { InUse, Denied }

\* none of the three small scripts is running
NoEntries == [ n \in {} |-> 0 ]
ScriptIdle ==
    /\ apply_changes = FALSE
    /\ args = << >>
    /\ root = NoEntries
    /\ queue = << >>
    /\ tasks = << >>
    /\ moves = << >>

ExtractIdle == xin = NoText /\ xpos = 0 /\ xout = << >> /\ xlast = << >>

Init ==
    /\ edited \in BOOLEAN
    /\ dryRun = (IF edited THEN ~ DRY_RUN ELSE DRY_RUN)
    /\ \E ca \in 1..Len(Contents), taken \in TakenSets :
         fs = InitRoot(ca, taken)
    /\ fs0 = fs
    /\ run = 0
    /\ pc = "idle"
    /\ todo = {}
    /\ cur = ""
    /\ pend = {}
    /\ cands = << >>
    /\ tier = "names"
    /\ opened = {}
    /\ best = NoName
    /\ target = ""
    /\ attempt = 0
    /\ slept = 0
    /\ last_err = NoError
    /\ out = << >>
    /\ hist = << >>
    /\ faulted = 0
    /\ ExtractIdle
    /\ ScriptIdle

xvars == << xin, xpos, xout, xlast >>
xfvars == << faulted, xvars >>
script_vars == << apply_changes, args, root, queue, tasks, moves >>
cfgvars == << edited, dryRun, fs0, script_vars >>

\* folder.rename may raise in this call: it has raised in it before, or fewer
\* than MaxFaulted calls have seen it raise
MayRaise == slept > 0 \/ faulted < MaxFaulted
folder_vars == << cur, pend, cands, tier, opened, best >>
rename_vars == << target, attempt, slept, last_err >>

\* a call returns to the for loop of main(): its locals are gone
Return ==
    /\ pc' = "loop"
    /\ cur' = ""
    /\ pend' = {}
    /\ cands' = << >>
    /\ tier' = "names"
    /\ opened' = {}
    /\ best' = NoName
    /\ target' = ""
    /\ attempt' = 0
    /\ slept' = 0
    /\ last_err' = NoError

\* main() is started: ROOT.iterdir() lists the entries present now
Main_Start ==
    /\ pc = "idle"
    /\ run < MaxRuns
    /\ run' = run + 1
    /\ todo' = DOMAIN fs
    /\ pc' = "loop"
    /\ UNCHANGED << cfgvars, fs, folder_vars, rename_vars, out, hist, xfvars >>

\* an entry the for loop works on: a directory whose name is 8 digits
IsStudentFolder(child) == child \in DOMAIN fs /\ fs[child].dir /\ ID8(child)

\* the for loop takes entries that are not student folders: continue.  The
\* iterations that do nothing are taken together, wherever the listing has them.
Main_SkipEntry ==
    /\ pc = "loop"
    /\ \E child \in todo : ~ IsStudentFolder(child)
    /\ todo' = { child \in todo : IsStudentFolder(child) }
    /\ UNCHANGED << cfgvars, fs, run, pc, folder_vars, rename_vars, out, hist, xfvars >>

\* the for loop takes a student folder: derive_name_for_folder(child) begins
\* and folder.iterdir() lists its entries
Main_EnterFolder ==
    /\ pc = "loop"
    /\ \E child \in todo :
         /\ IsStudentFolder(child)
         /\ todo' = todo \ { child }
         /\ cur' = child
         /\ pend' = 1..Len(FilesOf(fs[child].c))
    /\ pc' = "names"
    /\ UNCHANGED << cfgvars, fs, run, cands, tier, opened, best, rename_vars, out, hist, xfvars >>

\* an exception no handler catches leaves derive_name_for_folder and main():
\* the interpreter prints the traceback and exits, the entries of todo are
\* never visited.  tier tells where it was raised, unread the files of the
\* folder the tier had not visited.
Uncaught(folder, where, unread) ==
    /\ pc' = "crashed"
    /\ cur' = folder
    /\ tier' = where
    /\ pend' = unread
    /\ cands' = << >>
    /\ opened' = {}
    /\ best' = NoName

\* the for loop takes a student folder and folder.iterdir() of Step 1 raises
\* (the folder cannot be listed): no handler
Derive_FilenameListRaise ==
    /\ pc = "loop"
    /\ \E child \in todo :
         /\ IsStudentFolder(child)
         /\ todo' = todo \ { child }
         /\ Uncaught(child, "names", {})
    /\ UNCHANGED << cfgvars, fs, run, rename_vars, out, hist, xfvars >>

\* Step 1, one iteration: the next entry in the order the listing gives
Derive_FilenameStep ==
    /\ pc = "names"
    /\ \E i \in pend :
         LET f == FilesOf(fs[cur].c)[i]
         IN  /\ pend' = pend \ { i }
             /\ cands' = IF f.isfile THEN cands \o NameCandsOf[fs[cur].c][i] ELSE cands
    /\ UNCHANGED << cfgvars, fs, run, pc, todo, cur, tier, opened, best, rename_vars,
                    out, hist, xfvars >>

\* a derivation that goes on to Step 2 whatever the file names gave
Derive_FilenameDecide_Always ==
    /\ pc = "names"
    /\ pend = {}
    /\ pend' = 1..Len(FilesOf(fs[cur].c))
    /\ cands' = << >>
    /\ tier' = "pdfs"
    /\ pc' = "pdfs"
    /\ UNCHANGED << cfgvars, fs, run, todo, cur, opened, best, rename_vars, out, hist, xfvars >>

\* best_from_names = pick_best(file_name_cands); return it when there is one,
\* else list the folder again for Step 2
Derive_FilenameDecide ==
    /\ pc = "names"
    /\ pend = {}
    /\ LET best_from_names == pick_best(cands)
       IN  IF best_from_names # NoName
           THEN /\ best' = best_from_names
                /\ pc' = "derived"
                /\ UNCHANGED << pend, cands, tier >>
           ELSE /\ pend' = 1..Len(FilesOf(fs[cur].c))
                /\ cands' = << >>
                /\ tier' = "pdfs"
                /\ pc' = "pdfs"
                /\ UNCHANGED best
    /\ UNCHANGED << cfgvars, fs, run, todo, cur, opened, rename_vars, out, hist, xfvars >>

\* no filename candidate, and folder.iterdir() of Step 2 raises: no handler
Derive_PdfListRaise ==
    /\ pc = "names"
    /\ pend = {}
    /\ pick_best(cands) = NoName
    /\ Uncaught(cur, "pdfs", {})
    /\ UNCHANGED << cfgvars, fs, run, todo, rename_vars, out, hist, xfvars >>

\* Step 2, one iteration on a file named *.pdf for which pdf_text raises
Derive_PdfRaise ==
    /\ pc = "pdfs"
    /\ \E i \in pend :
         LET f == FilesOf(fs[cur].c)[i]
         IN  f.isfile /\ IsPdfName(f.name) /\ PagesRaise(f)
    /\ Uncaught(cur, "pdfs", pend)
    /\ UNCHANGED << cfgvars, fs, run, todo, rename_vars, out, hist, xfvars >>

\* Step 2, one iteration: only the body of a file named *.pdf is read
Derive_PdfStep ==
    /\ pc = "pdfs"
    /\ \E i \in pend :
         LET f == FilesOf(fs[cur].c)[i]
         IN  /\ ~ (f.isfile /\ IsPdfName(f.name) /\ PagesRaise(f))
             /\ pend' = pend \ { i }
             /\ IF f.isfile /\ IsPdfName(f.name)
                THEN /\ opened' = opened \cup { i }
                     /\ cands' = cands \o PdfCandsOf[fs[cur].c][i]
                ELSE UNCHANGED << opened, cands >>
    /\ UNCHANGED << cfgvars, fs, run, pc, todo, cur, tier, best, rename_vars, out, hist, xfvars >>

\* return pick_best(pdf_cands)
Derive_PdfDecide ==
    /\ pc = "pdfs"
    /\ pend = {}
    /\ best' = pick_best(cands)
    /\ pc' = "derived"
    /\ UNCHANGED << cfgvars, fs, run, todo, cur, pend, cands, tier, opened, rename_vars,
                    out, hist, xfvars >>

\* main(): no name was derived
Main_Skip ==
    /\ pc = "derived"
    /\ best = NoName
    /\ out' = Append(out, Line(run, "SKIP", cur, "", "no reliable name"))
    /\ Return
    /\ UNCHANGED << cfgvars, fs, run, todo, hist, xfvars >>

\* safe_rename(child, target_name(child.name, best)) up to the first attempt:
\* the no-op test, the collision loop and the DRY_RUN return
SafeRename_Plan ==
    /\ pc = "derived"
    /\ best # NoName
    /\ LET new_base == target_name(cur, best)
           names    == DOMAIN fs
           tgt      == IF new_base \in names
                       THEN WithNumber(new_base, FirstFree(names, new_base))
                       ELSE new_base
       IN  IF new_base = cur
           THEN /\ out' = Append(out, Line(run, "SAME", cur, cur, ""))
                /\ Return
           ELSE IF dryRun
           THEN /\ out' = Append(out, Line(run, "DRY", cur, tgt, ""))
                /\ Return
           ELSE /\ target' = tgt
                /\ attempt' = 0
                /\ slept' = 0
                /\ last_err' = NoError
                /\ pc' = "try"
                /\ UNCHANGED << out, folder_vars >>
    /\ UNCHANGED << cfgvars, fs, run, todo, hist, xfvars >>

\* an attempt of the retry loop: folder.rename(target) succeeds
SafeRename_Ok ==
    /\ pc = "try"
    /\ attempt < RENAMING_RETRIES
    /\ last_err # Denied
    /\ fs' = Renamed(fs, cur, target)
    /\ out' = Append(out, Line(run, "OK", cur, target, ""))
    /\ Return
    /\ UNCHANGED << cfgvars, run, todo, hist, xfvars >>

\* an attempt raises PermissionError: last_err = e, the [WAIT] line (a progress line, not kept
\* in out), time.sleep(RETRY_WAIT_SECONDS), next attempt
SafeRename_PermissionError ==
    /\ pc = "try"
    /\ attempt < RENAMING_RETRIES
    /\ MayRaise
    /\ faulted' = IF slept = 0 THEN faulted + 1 ELSE faulted
    /\ \E e \in PermissionErrors :
         /\ last_err = Denied => e = Denied
         /\ last_err' = e
    /\ attempt' = attempt + 1
    /\ slept' = slept + RETRY_WAIT_TENTHS
    /\ UNCHANGED << cfgvars, fs, run, pc, todo, folder_vars, target, out, hist, xvars >>

\* a handler that prints [FAIL] and raises the error again: the for loop of
\* main() is left with the entries it had not visited
SafeRename_OSError_Reraise ==
    /\ pc = "try"
    /\ attempt < RENAMING_RETRIES
    /\ MayRaise
    /\ last_err # Denied
    /\ faulted' = IF slept = 0 THEN faulted + 1 ELSE faulted
    /\ out' = Append(out, Line(run, "FAIL", cur, target, "OSError"))
    /\ Return
    /\ todo' = {}
    /\ UNCHANGED << cfgvars, fs, run, hist, xvars >>

\* an attempt raises another OSError: [FAIL] and return
SafeRename_OSError ==
    /\ pc = "try"
    /\ attempt < RENAMING_RETRIES
    /\ MayRaise
    /\ last_err # Denied
    /\ faulted' = IF slept = 0 THEN faulted + 1 ELSE faulted
    /\ out' = Append(out, Line(run, "FAIL", cur, target, "OSError"))
    /\ Return
    /\ UNCHANGED << cfgvars, fs, run, todo, hist, xvars >>

\* the for loop over the attempts is exhausted: [FAIL] ... after retries
SafeRename_GiveUp ==
    /\ pc = "try"
    /\ attempt = RENAMING_RETRIES
    /\ out' = Append(out, Line(run, "FAIL", cur, target, "Access denied after retries"))
    /\ Return
    /\ UNCHANGED << cfgvars, fs, run, todo, hist, xfvars >>

\* the for loop of main() is exhausted: the run is over
Main_End ==
    /\ pc = "loop"
    /\ todo = {}
    /\ hist' = Append(hist, fs)
    /\ pc' = "idle"
    /\ UNCHANGED << cfgvars, fs, run, todo, folder_vars, rename_vars, out, xfvars >>

Next ==
    \/ Main_Start
    \/ Main_SkipEntry
    \/ Main_EnterFolder
    \/ Derive_FilenameListRaise
    \/ Derive_FilenameStep
    \/ Derive_FilenameDecide
    \/ Derive_PdfListRaise
    \/ Derive_PdfRaise
    \/ Derive_PdfStep
    \/ Derive_PdfDecide
    \/ Main_Skip
    \/ SafeRename_Plan
    \/ SafeRename_Ok
    \/ SafeRename_PermissionError
    \/ SafeRename_OSError
    \/ SafeRename_GiveUp
    \/ Main_End

Spec == Init /\ [][Next]_vars

\* the interpreter goes on with the next statement as long as there is one
\* (and the script is started again while runs are left)
SpecFair == Spec /\ WF_vars(Next)

\* ---------------------------------------------------------------------------
\* The engine next to another process that writes in ROOT
\* ---------------------------------------------------------------------------

\* between target.exists() and folder.rename(target), and during the sleeps
\* between the attempts, nothing is locked: another process makes a directory
\* under the name safe_rename has chosen (it does so once)
Other_Creates ==
    /\ pc = "try"
    /\ target \notin DOMAIN fs
    /\ \A n \in DOMAIN fs : fs[n].ino # 6
    /\ fs' = [ n \in DOMAIN fs \cup { target } |->
                IF n = target THEN Entry(TRUE, 0, 6) ELSE fs[n] ]
    /\ UNCHANGED << cfgvars, run, pc, todo, folder_vars, rename_vars, out, hist, xfvars >>

\* folder.rename(target) on a name that exists.  Where the system refuses it
\* (FileExistsError on Windows, an OSError that is no PermissionError) the
\* handler of OSError prints [FAIL]; where the system replaces an empty
\* directory (POSIX rename) the attempt is SafeRename_Ok.
SafeRename_Exists ==
    /\ pc = "try"
    /\ attempt < RENAMING_RETRIES
    /\ target \in DOMAIN fs
    /\ out' = Append(out, Line(run, "FAIL", cur, target, "OSError"))
    /\ Return
    /\ UNCHANGED << cfgvars, fs, run, todo, hist, xfvars >>

NextRace ==
    \/ Main_Start
    \/ Main_SkipEntry
    \/ Main_EnterFolder
    \/ Derive_FilenameListRaise
    \/ Derive_FilenameStep
    \/ Derive_FilenameDecide
    \/ Derive_PdfListRaise
    \/ Derive_PdfRaise
    \/ Derive_PdfStep
    \/ Derive_PdfDecide
    \/ Main_Skip
    \/ SafeRename_Plan
    \/ SafeRename_Ok
    \/ SafeRename_PermissionError
    \/ SafeRename_OSError
    \/ SafeRename_Exists
    \/ SafeRename_GiveUp
    \/ Main_End
    \/ Other_Creates

SpecRace == Init /\ [][NextRace]_vars

-----------------------------------------------------------------------------
(* The extractors on one text, one match per step                            *)

\* main() is not running
EngineIdle ==
    /\ edited = FALSE
    /\ dryRun = DRY_RUN
    /\ fs = InitRoot(1, {})
    /\ fs0 = fs
    /\ run = 0
    /\ todo = {}
    /\ cur = ""
    /\ pend = {}
    /\ cands = << >>
    /\ tier = "names"
    /\ opened = {}
    /\ best = NoName
    /\ target = ""
    /\ attempt = 0
    /\ slept = 0
    /\ last_err = NoError
    /\ out = << >>
    /\ hist = << >>
    /\ faulted = 0

engine_vars == << cfgvars, fs, run, todo, folder_vars, rename_vars, out, hist, faulted >>

\* the texts the extractors are run on: the single texts, and the file names
\* and the bodies of the folder contents
ExtractTexts ==
    Texts \cup PairTexts
    \cup UNION { UNION { { Text("filename", Contents[c][i].base, Contents[c][i].hits),
                           Text("pdf", pdf_text(Contents[c][i]), BlobHits(Contents[c][i])) } :
                         i \in { j \in 1..Len(Contents[c]) : ~ PagesRaise(Contents[c][j]) } } :
                 c \in 1..Len(Contents) }

\* the matches of the text under extraction, in the order the extractor visits them
Visited ==
    IF xin.kind = "filename" THEN FilenameOrder(xin.hits)
    ELSE IF xin.text = "" THEN << >> ELSE PdfOrder(xin.hits)

InitExtract ==
    /\ EngineIdle
    /\ ScriptIdle
    /\ pc = "extract"
    /\ xin \in ExtractTexts
    /\ xpos = 0
    /\ xout = << >>
    /\ xlast = << >>

\* one iteration of a loop of candidates_from_filename
Extract_FilenameMatch ==
    /\ pc = "extract"
    /\ xin.kind = "filename"
    /\ xpos < Len(Visited)
    /\ xpos' = xpos + 1
    /\ xlast' = FilenameCand(Visited[xpos + 1])
    /\ xout' = xout \o xlast'
    /\ UNCHANGED << engine_vars, pc, xin >>

\* one iteration of a loop of candidates_from_pdf
Extract_PdfMatch ==
    /\ pc = "extract"
    /\ xin.kind = "pdf"
    /\ xpos < Len(Visited)
    /\ xpos' = xpos + 1
    /\ xlast' = PdfCand(xin.text, Visited[xpos + 1])
    /\ xout' = xout \o xlast'
    /\ UNCHANGED << engine_vars, pc, xin >>

NextExtract ==
    \/ Extract_FilenameMatch
    \/ Extract_PdfMatch

SpecExtract == InitExtract /\ [][NextExtract]_vars

-----------------------------------------------------------------------------
(* The scorer on the calls its call sites make                               *)

\* the names the scorer is called with: one to three words of last name and one
\* to MaxFirstWords words of first name
ScoreLasts == { "Roe", "Van Roe", "Van Der Roe" }
FirstWords == << "Mary", "Ann", "Lee", "Kay", "Eve", "Joy" >>
MaxFirstWords == 4
RECURSIVE FirstOf(_)
FirstOf(n) == IF n = 1 THEN FirstWords[1] ELSE FirstOf(n - 1) \o " " \o FirstWords[n]
ScoreFirsts == { FirstOf(n) : n \in 1..MaxFirstWords }

Call(last, first, source, dvf_hit, had_comma, near_anchor) ==
    [ last |-> last, first |-> first, source |-> source, dvf_hit |-> dvf_hit,
      had_comma |-> had_comma, near_anchor |-> near_anchor ]

\* the call of the PAT_DVF loop
DeclaredCalls ==
    { Call(l, f, "pdf", TRUE, TRUE, TRUE) : l \in ScoreLasts, f \in ScoreFirsts }

\* the calls of candidates_from_filename and of the general-pattern loop
OrdinaryCalls ==
    UNION { { Call(l, f, cs[1], FALSE, cs[2], FALSE) : l \in ScoreLasts, f \in ScoreFirsts } :
            cs \in { "filename", "pdf" } \X BOOLEAN }

ScoreOf(c) == score_candidate(c.last, c.first, c.source, c.dvf_hit, c.had_comma, c.near_anchor)

InitScore ==
    /\ EngineIdle
    /\ ScriptIdle
    /\ pc = "score"
    /\ xin \in { [ kind |-> "score", declared |-> d, ordinary |-> o ] :
                  d \in DeclaredCalls, o \in OrdinaryCalls }
    /\ xpos = 0
    /\ xout = << >>
    /\ xlast = << >>

\* score_candidate is applied to both calls
Score_Pair ==
    /\ pc = "score"
    /\ xpos = 0
    /\ xpos' = 1
    /\ xout' = << ScoreOf(xin.declared), ScoreOf(xin.ordinary) >>
    /\ UNCHANGED << engine_vars, pc, xin, xlast >>

NextScore == Score_Pair

SpecScore == InitScore /\ [][NextScore]_vars

-----------------------------------------------------------------------------
(* Properties of the rename executor (specification Spec)                    *)

Lines == { out[k] : k \in DOMAIN out }

\* the lines run r has printed with one of the tags
LinesOf(r, tags) == { l \in Lines : l.run = r /\ l.tag \in tags }

WynnHannah == << "Wynn", "Hannah" >>

\* C1: no-overwrite.  When safe_rename has planned a destination (it is about
\* to try the rename, or it has printed the [DRY] line), the planned name is
\* not the name of any entry; if "<id8> - Last, First" is occupied, the planned
\* name is "<base> (i)" for an i >= 1; and every entry that existed before the
\* first run is still there unchanged, or is a student folder that was moved:
\* no rename has replaced an entry.
C1_NoOverwrite ==
    /\ pc = "try" =>
         LET new_base == target_name(cur, best)
         IN  /\ target \notin DOMAIN fs
             /\ new_base \in DOMAIN fs =>
                  /\ target # new_base
                  /\ \E i \in 1..Cardinality(DOMAIN fs) : target = WithNumber(new_base, i)
    /\ \A l \in Lines : l.tag \in { "DRY", "OK" } => l.to \notin DOMAIN fs0
    /\ \A l \in Lines : l.tag = "DRY" => l.to \notin DOMAIN fs
    /\ \A n \in DOMAIN fs0 :
         \/ n \in DOMAIN fs /\ fs[n] = fs0[n]
         \/ n \in { FolderA, FolderB } /\ n \notin DOMAIN fs
    /\ Cardinality(DOMAIN fs) = Cardinality(DOMAIN fs0)

\* the base name and "<base> (1)" are both occupied when the rename is tried
C1_Witness ==
    /\ pc = "try"
    /\ target_name(cur, best) \in DOMAIN fs
    /\ WithNumber(target_name(cur, best), 1) \in DOMAIN fs
    /\ target = WithNumber(target_name(cur, best), 2)

\* C2 as stated: once two commit-mode runs are over, the second has renamed
\* nothing and reported no failure, and the names after it are those after the
\* first.
C2_SecondRunIdle ==
    (~ dryRun /\ Len(hist) >= 2) =>
        /\ hist[2] = hist[1]
        /\ LinesOf(2, { "OK", "FAIL" }) = {}

\* C2, amended: in commit mode the second run never works on a folder the first
\* run renamed; and when the first run reported no [FAIL], the second run
\* renames nothing and reports no [FAIL], so that the names stay those the
\* first run left.
C2_SecondRunAfterCleanFirst ==
    ~ dryRun =>
        /\ \A l1 \in LinesOf(1, { "OK" }), l2 \in LinesOf(2, { "SAME", "DRY", "OK", "SKIP", "FAIL" }) :
             l2.folder # l1.to /\ l2.folder # l1.folder
        /\ (run >= 2 /\ LinesOf(1, { "FAIL" }) = {}) =>
             /\ fs = hist[1]
             /\ pc # "try"
             /\ LinesOf(2, { "OK", "FAIL" }) = {}
        /\ (Len(hist) >= 2 /\ LinesOf(1, { "FAIL" }) = {}) => hist[2] = hist[1]

\* two commit-mode runs are over, the first renamed both folders and failed on none
C2_Witness ==
    /\ ~ dryRun
    /\ Len(hist) >= 2
    /\ Cardinality(LinesOf(1, { "OK" })) = 2
    /\ LinesOf(1, { "FAIL" }) = {}
    /\ hist[2] = hist[1]
    /\ hist[1] # fs0

\* C3 as stated: once two commit-mode runs are over, every folder the first
\* run renamed has a [SAME] line of the second run.
C3_SecondRunReportsSame ==
    (~ dryRun /\ Len(hist) >= 2) =>
        \A l1 \in LinesOf(1, { "OK" }) :
            \E l2 \in LinesOf(2, { "SAME" }) : l2.folder = l1.to

\* C4: preview is the default, and a preview run changes nothing.  Unless the
\* DRY_RUN line was edited the run is a preview; in a preview the root is as it
\* was, no rename is ever tried, the only lines are [DRY] and [SKIP], a [DRY]
\* line names an existing folder and a destination that is free; and a folder
\* with a winner gets exactly its [DRY] line.
C4_PreviewNeverMutates ==
    /\ [] ( /\ ~ edited => dryRun
            /\ dryRun =>
                 /\ fs = fs0
                 /\ pc # "try"
                 /\ \A l \in Lines :
                      /\ l.tag \in { "DRY", "SKIP" }
                      /\ l.tag = "DRY" => l.folder \in DOMAIN fs /\ l.to \notin DOMAIN fs )
    /\ [][ (dryRun /\ pc = "derived" /\ best # NoName) =>
              /\ Len(out') = Len(out) + 1
              /\ out'[Len(out')].tag = "DRY"
              /\ out'[Len(out')].folder = cur
              /\ out'[Len(out')].to # cur
              /\ fs' = fs ]_vars

\* a preview of the unedited script has reported a destination with a number
C4_Witness ==
    /\ ~ edited
    /\ dryRun
    /\ Len(hist) >= 1
    /\ \E l \in Lines :
         /\ l.tag = "DRY"
         /\ l.folder = FolderA
         /\ l.to = WithNumber(target_name(FolderA, WynnHannah), 1)

-----------------------------------------------------------------------------
(* Properties of derive_name_for_folder (specification Spec)                 *)

\* the files of content c whose name yields at least one candidate
NamedFiles(c) ==
    { i \in 1..Len(FilesOf(c)) : FilesOf(c)[i].isfile /\ NameCandsOf[c][i] # << >> }

\* the candidates of all file names of content c
NameCandidates(c) ==
    UNION { Range(NameCandsOf[c][i]) : i \in NamedFiles(c) }

\* C5: filename-tier short-circuit.  The document tier is entered only when
\* every entry has been visited by the filename tier and no candidate was
\* collected; so a body has been opened only in a folder none of whose file
\* names yields a candidate.  When some file name yields a candidate, the
\* derivation ends in the filename tier with no body opened, and the winner is
\* a filename candidate of the highest score.
C5_FilenameShortCircuit ==
    /\ [] ( /\ (tier = "pdfs" \/ opened # {}) => (cur # "" /\ NamedFiles(fs[cur].c) = {})
            /\ (pc = "derived" /\ NamedFiles(fs[cur].c) # {}) =>
                 /\ tier = "names"
                 /\ opened = {}
                 /\ \E c \in NameCandidates(fs[cur].c) :
                      /\ best = Key(c)
                      /\ \A d \in NameCandidates(fs[cur].c) : d[3] <= c[3] )
    /\ [][ (tier = "names" /\ tier' = "pdfs") => (pend = {} /\ cands = << >>) ]_vars

\* the folder whose file name has a name and whose body declares another one
C5_Witness ==
    /\ pc = "derived"
    /\ fs[cur].c = 1
    /\ opened = {}
    /\ best = WynnHannah

\* DeclaredIn[c]: the names declared by a "Student Name:" match in the text
\* read from the PDFs of content c
DeclaredIn ==
    [ c \in 1..Len(Contents) |->
        UNION { { Key(d) : d \in UNION { Range(DvfCand(h)) :
                                          h \in Range(OfPat(BlobHits(FilesOf(c)[i]), "DVF")) } } :
                i \in { j \in 1..Len(FilesOf(c)) :
                          FilesOf(c)[j].isfile /\ IsPdfName(FilesOf(c)[j].name) } } ]

Declared(c) == IF c = 0 THEN {} ELSE DeclaredIn[c]

\* C6: declared-name precedence.  When the derivation ends in the document
\* tier and the text read from some PDF of the folder has a valid declared
\* name, the winner is a declared name.
C6_DeclaredPrecedence ==
    (pc = "derived" /\ tier = "pdfs" /\ Declared(fs[cur].c) # {}) =>
        best \in Declared(fs[cur].c)

\* one body declares Doe, Jane and the other has the ordinary match Roe, Mary
C6_Witness ==
    /\ pc = "derived"
    /\ tier = "pdfs"
    /\ fs[cur].c = 2
    /\ Cardinality(opened) = 2
    /\ << "Roe", "Mary" >> \in { Key(cands[k]) : k \in DOMAIN cands }
    /\ best = << "Doe", "Jane" >>

\* C10: bounded retry.  While safe_rename tries the rename, the run is a commit
\* run, at most 5 attempts have failed and the time slept is 1.5 s for each of
\* them; an attempt is made only when fewer than 5 have failed; what ends the
\* attempts is one line, [OK] with the folder renamed or [FAIL] with the root
\* untouched, and the for loop of main() goes on; after 5 failed attempts the
\* only step is that [FAIL].
C10_BoundedRetry ==
    /\ [] ( pc = "try" =>
              /\ ~ dryRun
              /\ attempt \in 0..5
              /\ slept = attempt * 15 )
    /\ [][ pc = "try" =>
             \/ /\ pc' = "try"
                /\ attempt < 5
                /\ attempt' = attempt + 1
                /\ slept' = slept + 15
                /\ out' = out /\ fs' = fs
             \/ /\ pc' = "loop"
                /\ attempt < 5
                /\ out' = Append(out, Line(run, "OK", cur, target, ""))
                /\ fs' = Renamed(fs, cur, target)
             \/ /\ pc' = "loop"
                /\ Len(out') = Len(out) + 1
                /\ out'[Len(out')].tag = "FAIL"
                /\ out'[Len(out')].folder = cur
                /\ fs' = fs ]_vars
    /\ [][ (pc = "try" /\ attempt = 5) =>
             /\ pc' = "loop"
             /\ out' = Append(out, Line(run, "FAIL", cur, target, "Access denied after retries"))
             /\ fs' = fs ]_vars

\* five attempts have failed
C10_Witness ==
    /\ pc = "try"
    /\ attempt = 5
    /\ slept = 75

-----------------------------------------------------------------------------
(* Properties of the scorer and the extractors                               *)

\* C7: score dominance (specification SpecScore).  For every call the
\* declared-name loop makes and every call the other loops make, the score of
\* the first is greater than the score of the second.
C7_ScoreDominance ==
    (pc = "score" /\ xpos = 1) => xout[1] > xout[2]

\* the lowest declared score meets the highest ordinary score
C7_Witness ==
    /\ pc = "score"
    /\ xpos = 1
    /\ xout = << 29, 19 >>

SuffixLower == { str_lower(x) : x \in SUFFIX_ALLOW }

\* the (last, first, score) is a valid candidate
ValidCandidate(c) ==
    /\ c[1] # ""
    /\ c[2] # ""
    /\ << str_lower(c[1]), str_lower(c[2]) >> \notin BAD_PAIR_LOWER
    /\ \A t \in Range(str_split(c[1])) \cup Range(str_split(c[2])) :
         token_ok(t) \/ str_lower(t) \in SuffixLower

\* the side has words and all of them are stopwords
PureStopwords(side) ==
    /\ str_split(side) # << >>
    /\ \A t \in Range(str_split(side)) : str_lower(t) \in STOPWORDS_LOWER

\* C8: candidate validity (specification SpecExtract).  Every candidate the
\* extractors have emitted has a non-empty last and first, is no banned pair
\* and has only tokens that pass token_ok or are allowed suffixes; and a match
\* one captured side of which consists of stopwords only has emitted nothing.
C8_CandidateValidity ==
    pc = "extract" =>
        /\ \A k \in DOMAIN xout : ValidCandidate(xout[k])
        /\ (xpos > 0 /\ (PureStopwords(Visited[xpos].g1) \/ PureStopwords(Visited[xpos].g2)))
             => xlast = << >>

\* "School, Mary" in a body: the last-name side is a stopword
C8_Witness ==
    /\ pc = "extract"
    /\ xin.kind = "pdf"
    /\ xin.text = "School, Mary"
    /\ xpos = 1
    /\ Visited[1].g1 = "School"
    /\ xlast = << >>

\* a CONTEXT_REJECT phrase occurs in blob between 80 characters before the
\* start of the match and 80 characters after its end
PhraseInWindow(blob, h) ==
    LET lo == IF h.start < 80 THEN 0 ELSE h.start - 80
        hi == IF h.end + 80 > Len(blob) THEN Len(blob) ELSE h.end + 80
        lc == str_lower(blob)
    IN  \E p \in CONTEXT_REJECT : \E q \in lo..hi :
            q + Len(p.w) <= hi /\ PhraseAt(blob, lc, p, q)

C11_NonTransientNeverRetried ==
    ~ (pc = "try" /\ last_err = Denied)

\* the failing case in full: five attempts were all refused for lack of
\* permission and 7.5 s were slept before [FAIL]
C11_DeniedRetriedToTheEnd ==
    pc = "try" /\ last_err = Denied /\ attempt = RENAMING_RETRIES
        /\ slept = RENAMING_RETRIES * RETRY_WAIT_TENTHS

\* ROOT as run r found it, and the student folders of that listing
RootAt(r) == IF r = 1 THEN fs0 ELSE hist[r - 1]
UnitsAt(r) == { n \in DOMAIN RootAt(r) : RootAt(r)[n].dir /\ ID8(n) }
HasLine(r, folder) == \E i \in 1..Len(out) : out[i].run = r /\ out[i].folder = folder

\* a step of safe_rename that prints [FAIL]
FailStep == Len(out') = Len(out) + 1 /\ out'[Len(out')].tag = "FAIL"

\* C12: when the rename of a folder ends in [FAIL] (after the retries or on an
\* OSError), the step that reports it returns to the loop of main() with ROOT
\* as it was and the folder under its name, the entries not yet visited are
\* still to be visited, and when the run is over the folder is in ROOT under
\* its original name with its original entry, its destination does not exist,
\* and every student folder of the listing has its report line
C12_RenameFailureIsolated ==
    /\ [] ( \A i \in 1..Len(out) :
              out[i].tag = "FAIL" =>
                LET r == out[i].run
                    f == out[i].folder
                IN  /\ r = run =>
                          \A u \in UnitsAt(r) : u = cur \/ u \in todo \/ HasLine(r, u)
                    /\ Len(hist) >= r =>
                          /\ f \in DOMAIN hist[r]
                          /\ hist[r][f] = RootAt(r)[f]
                          /\ out[i].to \notin DOMAIN hist[r]
                          /\ \A u \in UnitsAt(r) : HasLine(r, u) )
    /\ [] ( pc = "try" => cur \in DOMAIN fs /\ fs[cur] = RootAt(run)[cur] )
    /\ [][ FailStep => /\ fs' = fs
                       /\ cur \in DOMAIN fs'
                       /\ pc' = "loop"
                       /\ todo' = todo ]_vars

\* a run is over in which one folder was reported [FAIL] and a sibling visited
\* after it was renamed
C12_Witness ==
    \E i, j \in 1..Len(out) :
        /\ i < j
        /\ out[i].tag = "FAIL"
        /\ out[j].tag = "OK"
        /\ out[j].run = out[i].run
        /\ out[j].folder # out[i].folder
        /\ Len(hist) >= out[i].run

\* ---------------------------------------------------------------------------
\* Failures of the document tier
\* ---------------------------------------------------------------------------

\* the files of content c that Step 2 hands to pdf_text
PdfFiles(c) == { i \in 1..Len(FilesOf(c)) : FilesOf(c)[i].isfile /\ IsPdfName(FilesOf(c)[i].name) }

\* the names the pages that can be read yield, each page taken alone: pages of
\* PDFs that open and list their pages, among the first MAX_PDF_PAGES, whose
\* extract_text returns
ReadKeysIn ==
    [ c \in 1..Len(Contents) |->
        UNION { UNION { { Key(x) : x \in Range(candidates_from_pdf(Contents[c][i].pages[k].text,
                                                                   Contents[c][i].pages[k].hits)) } :
                        k \in { j \in 1..Len(Contents[c][i].pages) :
                                  j <= MAX_PDF_PAGES /\ Contents[c][i].pages[j].ok } } :
                i \in { j \in PdfFiles(c) : Contents[c][j].readable /\ Contents[c][j].listable } } ]

\* C13: every failure of reading a document is zero evidence.  No exception
\* raised while a PDF is read ends the document tier with files of the folder
\* unread; when the tier has ended every PDF of the folder was handed to the
\* reader, and every candidate comes from a page that could be read
C13_ExtractionFailureIsZeroEvidence ==
    /\ ~ (pc = "crashed" /\ pend # {})
    /\ (pc = "derived" /\ tier = "pdfs") =>
          /\ opened = PdfFiles(fs[cur].c)
          /\ \A i \in 1..Len(cands) : Key(cands[i]) \in ReadKeysIn[fs[cur].c]

\* what holds of the code: a PDF that cannot be opened and a page whose
\* extraction fails give no candidate and the other PDFs are read
C13_CaughtFailures ==
    (pc = "derived" /\ tier = "pdfs") =>
          /\ opened = PdfFiles(fs[cur].c)
          /\ \A i \in 1..Len(cands) : Key(cands[i]) \in ReadKeysIn[fs[cur].c]

\* the encrypted PDF ended the run while notes.pdf was still unread
C13_EncryptedPdfEndsRun ==
    pc = "crashed" /\ fs[cur].c = 10 /\ pend = { 1, 2 } /\ out = << >>

\* ---------------------------------------------------------------------------
\* Frame of the engine
\* ---------------------------------------------------------------------------

\* a step that prints the [SKIP] line of cur
SkipStep == out' = Append(out, Line(run, "SKIP", cur, "", "no reliable name"))

\* C14: a folder for which derive_name_for_folder returns no winner - no tier
\* gave a candidate - gets [SKIP] "no reliable name" and ROOT stays as it is;
\* and whatever the outcome of a folder, the entries inside it are the ones it
\* had: a step changes ROOT at most by moving one student folder, with its
\* entries, to a name that was free, and every other entry of ROOT stays
C14_OnlyTheFolderIsRenamed ==
    /\ [] ( pc = "derived" => (best = NoName <=> (tier = "pdfs" /\ cands = << >>)) )
    /\ [][ (pc = "derived" /\ best = NoName) =>
              (SkipStep /\ fs' = fs /\ pc' = "loop") ]_vars
    /\ [][ SkipStep => (pc = "derived" /\ best = NoName) ]_vars
    /\ [][ fs' # fs =>
              \E new \in DOMAIN fs' \ DOMAIN fs :
                  /\ IsStudentFolder(cur)
                  /\ DOMAIN fs' = (DOMAIN fs \ { cur }) \cup { new }
                  /\ fs'[new] = fs[cur]
                  /\ \A n \in DOMAIN fs \ { cur } : fs'[n] = fs[n] ]_vars
    /\ [] ( \A m \in DOMAIN fs0 :
              IF fs0[m].dir /\ ID8(m)
              THEN \E n \in DOMAIN fs : fs[n] = fs0[m]
              ELSE m \in DOMAIN fs /\ fs[m] = fs0[m] )

\* a commit run is over in which one folder got [SKIP] and kept its name and
\* entries, and another was renamed and has its entries under the new name
C14_Witness ==
    /\ Len(hist) >= 1
    /\ \E i, j \in 1..Len(out) :
         /\ out[i].run = 1 /\ out[i].tag = "SKIP"
         /\ out[i].folder \in DOMAIN hist[1]
         /\ hist[1][out[i].folder] = fs0[out[i].folder]
         /\ out[j].run = 1 /\ out[j].tag = "OK"
         /\ out[j].folder \notin DOMAIN hist[1]
         /\ hist[1][out[j].to] = fs0[out[j].folder]

\* ---------------------------------------------------------------------------
\* Reporting and completion
\* ---------------------------------------------------------------------------

TerminalTags == { "SAME", "DRY", "OK", "SKIP", "FAIL" }

\* the report lines of run r for a folder
LinesFor(r, folder) == { i \in 1..Len(out) : out[i].run = r /\ out[i].folder = folder }

\* run r is over: main() has returned or the interpreter has exited
RunOver(r) == r < run \/ (r = run /\ pc \in { "idle", "crashed" })

\* C15: every report line is a terminal line of a student folder of the
\* listing of its run, no such folder has two lines for one run, and when
\* the run is over each of them has exactly one
C15_OneTerminalLinePerFolder ==
    /\ \A i \in 1..Len(out) :
         out[i].tag \in TerminalTags /\ out[i].folder \in UnitsAt(out[i].run)
    /\ \A r \in 1..run : \A u \in UnitsAt(r) :
         /\ Cardinality(LinesFor(r, u)) <= 1
         /\ RunOver(r) => Cardinality(LinesFor(r, u)) = 1

\* what holds of the code: no folder has two lines for one run, and in a run
\* that main() has returned from every student folder has exactly one
C15_OneLineWhenMainReturns ==
    /\ \A i \in 1..Len(out) :
         out[i].tag \in TerminalTags /\ out[i].folder \in UnitsAt(out[i].run)
    /\ \A r \in 1..run : \A u \in UnitsAt(r) :
         /\ Cardinality(LinesFor(r, u)) <= 1
         /\ Len(hist) >= r => Cardinality(LinesFor(r, u)) = 1

\* ---------------------------------------------------------------------------
\* Order of the folders
\* ---------------------------------------------------------------------------

RECURSIVE Concat(_)
Concat(ss) == IF ss = << >> THEN << >> ELSE Head(ss) \o Concat(Tail(ss))

\* the orders in which folder.iterdir() can give n entries
ListingOrders(n) == { p \in [ 1..n -> 1..n ] : \A i, j \in 1..n : p[i] = p[j] => i = j }

\* derive_name_for_folder on content c when both listings give the order p;
\* the set is empty when the call raises
DeriveIn(c, p) ==
    LET n     == Len(Contents[c])
        names == Concat([ k \in 1..n |-> IF Contents[c][p[k]].isfile
                                         THEN NameCandsOf[c][p[k]] ELSE << >> ])
        pdfs  == Concat([ k \in 1..n |-> IF p[k] \in PdfFiles(c)
                                         THEN PdfCandsOf[c][p[k]] ELSE << >> ])
    IN  IF pick_best(names) # NoName THEN { pick_best(names) }
        ELSE IF \E i \in PdfFiles(c) : PagesRaise(Contents[c][i]) THEN {}
        ELSE { pick_best(pdfs) }

\* what derive_name_for_folder can return for content c
WinnersOf ==
    [ c \in 1..Len(Contents) |->
        UNION { DeriveIn(c, p) : p \in ListingOrders(Len(Contents[c])) } ]

\* the destination safe_rename plans for new_base among the names present
PlannedName(names, new_base) ==
    IF new_base \in names THEN WithNumber(new_base, FirstFree(names, new_base)) ELSE new_base

\* the outcome of a line is the one the folder has by itself in the ROOT the
\* run found: a winner of its own files, the destination planned among the
\* names the run found, the tag of the mode
OwnOutcome(l) ==
    LET c == RootAt(l.run)[l.folder].c
    IN  IF l.tag = "SKIP" THEN NoName \in WinnersOf[c]
        ELSE /\ l.tag \in (IF dryRun THEN { "DRY" } ELSE { "OK", "FAIL" })
             /\ \E w \in WinnersOf[c] \ { NoName } :
                  l.to = PlannedName(DOMAIN RootAt(l.run), target_name(l.folder, w))

\* C16: the outcome of a folder does not depend on the folders processed
\* before it.  Every line reports the outcome the folder has by itself in the
\* ROOT the run found, and when the run is over every student folder of the
\* listing has its outcome, but for a folder whose own derivation raised
C16_OrderInsensitive ==
    /\ \A i \in 1..Len(out) : OwnOutcome(out[i])
    /\ \A r \in 1..run : \A u \in UnitsAt(r) :
         RunOver(r) => (HasLine(r, u) \/ (r = run /\ pc = "crashed" /\ cur = u))

\* what holds of the code: the folders that are processed get the outcome
\* they have by themselves
C16_OutcomeOfProcessedFolders ==
    \A i \in 1..Len(out) : OwnOutcome(out[i])

\* the two orders on one ROOT: the run ends on FolderA, and FolderB, which
\* was listed first, has been renamed
C16_SiblingFirst ==
    /\ pc = "crashed" /\ cur = FolderA /\ run = 1
    /\ \E i \in 1..Len(out) : out[i].folder = FolderB /\ out[i].tag = "OK"

\* ---------------------------------------------------------------------------
\* Check and rename next to another process
\* ---------------------------------------------------------------------------

\* a step of the retry loop that calls folder.rename(target)
RenameAttempt ==
    /\ pc = "try"
    /\ attempt < RENAMING_RETRIES
    /\ attempt' = attempt + 1 \/ pc' = "loop"

\* C17: the check of the destination and the rename are one transaction.
\* Whatever another process creates after the check, folder.rename(target) is
\* never called with a target that exists
C17_CheckThenActAtomic ==
    [][ RenameAttempt => target \notin DOMAIN fs ]_vars

\* the outcome where the system refuses the rename: [FAIL] for a destination
\* that the check had found free and that the other process has made
C17_Refused ==
    \E i \in 1..Len(out) :
        /\ out[i].tag = "FAIL"
        /\ out[i].to \in DOMAIN fs
        /\ fs[out[i].to].ino = 6

\* ---------------------------------------------------------------------------
\* Completion of the run
\* ---------------------------------------------------------------------------

\* C18: every run that is started returns from main(), and every student
\* folder of its listing eventually has a terminal line, whatever fails while
\* its files are listed, its PDFs are read or it is renamed
C18_RunCompletion ==
    \A r \in 1..MaxRuns :
        /\ (run = r) ~> (Len(hist) >= r)
        /\ \A u \in { FolderA, FolderB } :
             (run = r /\ u \in UnitsAt(r)) ~> HasLine(r, u)

\* what holds of the code: every run that is started is over after finitely
\* many steps, by the return of main() or by an exception nothing catches
C18_ReturnsOrRaises ==
    \A r \in 1..MaxRuns : (run = r) ~> (Len(hist) >= r \/ pc = "crashed")

\* ---------------------------------------------------------------------------
\* The Text Normalizer on strings of its own
\* ---------------------------------------------------------------------------

MaxNormLen == 3
MaxRunLen == 5

\* every character collapse_ws names, with a letter, the ASCII hyphen and the
\* figure dash
NormAlphabet ==
    { "a", "-", " ", "\t", "\n", NBSP, HYPHEN_2010, HYPHEN_2011, EN_DASH, EM_DASH,
      FIGURE_DASH }
RunAlphabet == { "a", " ", NBSP }

\* the strings of at most n characters of A
Words(A, n) == UNION { { str_join("", q) : q \in [ 1..k -> A ] } : k \in 0..n }

NormInputs == Words(NormAlphabet, MaxNormLen) \cup Words(RunAlphabet, MaxRunLen)

\* xin: the string; xout: collapse_ws applied xpos times to it; xlast: the
\* value before the last application
InitNorm ==
    /\ EngineIdle
    /\ ScriptIdle
    /\ pc = "norm"
    /\ xin \in NormInputs
    /\ xpos = 0
    /\ xout = xin
    /\ xlast = xin

\* collapse_ws is applied to the result so far
Norm_Apply ==
    /\ pc = "norm"
    /\ xpos < 2
    /\ xpos' = xpos + 1
    /\ xlast' = xout
    /\ xout' = collapse_ws(xout)
    /\ UNCHANGED << engine_vars, pc, xin >>

NextNorm == Norm_Apply

SpecNorm == InitNorm /\ [][NextNorm]_vars

Chars(s) == { Ch(s, i) : i \in 1..Len(s) }

\* no white space at either end and no two white characters in a row
Trimmed(s) ==
    /\ s # "" => (Ch(s, 1) \notin WhiteSet /\ Ch(s, Len(s)) \notin WhiteSet)
    /\ \A i \in 1..(Len(s) - 1) : ~ (Ch(s, i) \in WhiteSet /\ Ch(s, i + 1) \in WhiteSet)

\* C19: for every string, the result of collapse_ws holds no non-breaking
\* space and no em, en or figure dash, each of these dashes of the input is a
\* hyphen in the result, no two white characters follow each other, there is
\* no white space at either end, and the empty string gives the empty string
C19_NormalizerOutputForm ==
    xpos >= 1 =>
        /\ Chars(xout) \cap { NBSP, EM_DASH, EN_DASH, FIGURE_DASH } = {}
        /\ Trimmed(xout)
        /\ xlast = "" => xout = ""
        /\ (xpos = 1 /\ Chars(xin) \cap WhiteSet = {}) =>
              /\ Len(xout) = Len(xin)
              /\ \A i \in 1..Len(xin) :
                   Ch(xin, i) \in { EM_DASH, EN_DASH, FIGURE_DASH } => Ch(xout, i) = "-"

\* what holds of the code: the same without the figure dash, which is kept
C19_OutputFormButFigureDash ==
    xpos >= 1 =>
        /\ Chars(xout) \cap { NBSP, EM_DASH, EN_DASH, HYPHEN_2010, HYPHEN_2011 } = {}
        /\ Trimmed(xout)
        /\ xlast = "" => xout = ""
        /\ (xpos = 1 /\ Chars(xin) \cap WhiteSet = {}) =>
              /\ Len(xout) = Len(xin)
              /\ \A i \in 1..Len(xin) :
                   /\ Ch(xin, i) \in { EM_DASH, EN_DASH, HYPHEN_2010, HYPHEN_2011 }
                         => Ch(xout, i) = "-"
                   /\ Ch(xin, i) = FIGURE_DASH => Ch(xout, i) = FIGURE_DASH

\* C20: collapse_ws applied to a result of collapse_ws returns it unchanged
C20_NormalizerIdempotent ==
    xpos = 2 => xout = xlast

\* a string with a run of three spaces inside, which the first application
\* changed, after the second application
C20_Witness ==
    /\ xpos = 2
    /\ xin = "a   a"
    /\ xlast = "a a"
    /\ xout = "a a"

-----------------------------------------------------------------------------
(* rename_dirs.py                                                           *)

\* the characters _illegal_re matches.  The class is built from
\* re.escape(WIN_ILLEGAL), and WIN_ILLEGAL is a raw string: its last eight
\* characters \x00-\x1F are escaped one by one, so the class holds the
\* backslash, x, 0, 1, F and the hyphen-minus and no control character.
\* ("|" is the vertical bar here.)
WIN_ILLEGAL ==
    { "<", ">", ":", "\"", "/", "\\", "|", "?", "*", "x", "0", "1", "F", "-" }

_reserved ==
    { "CON", "PRN", "AUX", "NUL" }
    \cup { "COM" \o str_int(i) : i \in 1..9 } \cup { "LPT" \o str_int(i) : i \in 1..9 }

\* _illegal_re.sub("_", name)
RECURSIVE SubIllegal(_)
SubIllegal(s) ==
    IF s = "" THEN ""
    ELSE (IF Head(s) \in WIN_ILLEGAL THEN "_" ELSE Head(s)) \o SubIllegal(Tail(s))

\* _trailing_re.sub("", out): the dots and spaces at the end are removed
RECURSIVE SubTrailing(_)
SubTrailing(s) ==
    IF s # "" /\ Ch(s, Len(s)) \in { ".", " " }
    THEN SubTrailing(SubSeq(s, 1, Len(s) - 1))
    ELSE s

\* 0-based offset of the first "." of s, Len(s) when there is none
RECURSIVE FirstDot(_)
FirstDot(s) == IF s = "" \/ Head(s) = "." THEN 0 ELSE 1 + FirstDot(Tail(s))

\* s.partition("."): << stem, dot, ext >>
partition_dot(s) ==
    LET k == FirstDot(s)
    IN  IF k = Len(s) THEN << s, "", "" >>
        ELSE << SubSeq(s, 1, k), ".", SubSeq(s, k + 2, Len(s)) >>

sanitize_component(name) ==
    LET out1 == SubTrailing(SubIllegal(name))
        out2 == IF out1 = "" THEN "_" ELSE out1
        base_before_dot == partition_dot(out2)[1]
    IN  IF str_upper(base_before_dot) \in _reserved THEN out2 \o "_" ELSE out2

\* the name ensure_unique_path tries with the number n
Suffixed(name, n) ==
    LET p == partition_dot(name)
    IN  p[1] \o "_" \o str_int(n) \o p[2] \o p[3]

\* ensure_unique_path(dst), names being the entries that exist in root
ensure_unique_path(names, name) ==
    IF name \notin names THEN name
    ELSE LET n == CHOOSE i \in 1..(Cardinality(names) + 1) :
                      /\ Suffixed(name, i) \notin names
                      /\ \A j \in 1..(i - 1) : Suffixed(name, j) \in names
         IN  Suffixed(name, n)

\* new_name of main(): <LegacyID>_<PersonID>_<Full Name>, each part sanitized
new_name(legacy, row) ==
    sanitize_component(legacy) \o "_" \o sanitize_component(row[1]) \o "_"
        \o sanitize_component(row[2])

\* ---- inputs ---------------------------------------------------------------
\* the lines folder_legacyid.txt can hold, in the order sorted() gives them
LegacyUniverse == << "100", "100_200", "300" >>

\* sets of legacy IDs read from the file
LegacyLists == { {}, { "100" }, { "100", "100_200" }, { "100", "100_200", "300" } }

\* (Person ID, Full Name) of a CSV row
NoRow == << >>
Rows == { << "200_5", "Doe, Jane" >>, << "5", "Doe, Jane" >>, << "7", "Roe: M. Ann." >> }

\* person_map: a row, or none, for each legacy ID
PersonMaps == [ Range(LegacyUniverse) -> Rows \cup { NoRow } ]

\* entries that are in the working folder besides the legacy folders
TakenLists ==
    { {}, { "3___7_Roe_ M. Ann" }, { "3___7_Roe_ M. Ann", "3___7_Roe_ M_1. Ann" },
      { "____2___5_Doe, Jane" } }

\* the working folder at the start: the legacy folders (300 may be missing)
\* have the identities 1, 2, 3, every other entry the identity 9
InitCwd(with300, taken) ==
    LET legacy == IF with300 THEN { 1, 2, 3 } ELSE { 1, 2 }
    IN  [ n \in { LegacyUniverse[i] : i \in legacy } \cup taken |->
            IF \E i \in legacy : LegacyUniverse[i] = n
            THEN CHOOSE i \in legacy : LegacyUniverse[i] = n
            ELSE 9 ]

Move(src, dst, existed, ok) == [ src |-> src, dst |-> dst, existed |-> existed, ok |-> ok ]

InitRenameDirs ==
    /\ EngineIdle
    /\ ExtractIdle
    /\ pc = "rd_plan"
    /\ apply_changes \in BOOLEAN
    /\ \E ids \in LegacyLists, pm \in PersonMaps :
         /\ args = [ legacy_ids |-> ids, person_map |-> pm ]
         /\ queue = SelectSeq(LegacyUniverse, LAMBDA l : l \in ids)
    /\ \E with300 \in BOOLEAN, taken \in TakenLists : root = InitCwd(with300, taken)
    /\ tasks = << >>
    /\ moves = << >>

\* the variables of the other programs
rd_vars ==
    << edited, dryRun, fs0, fs, run, todo, folder_vars, rename_vars, out, hist,
       faulted, xvars >>

\* STEP 5, one iteration of "for legacy in sorted(legacy_ids)"
RD_Plan ==
    /\ pc = "rd_plan"
    /\ queue # << >>
    /\ LET legacy == Head(queue)
           row    == args.person_map[legacy]
           dst    == ensure_unique_path(DOMAIN root, new_name(legacy, row))
       IN  tasks' = IF legacy \notin DOMAIN root \/ row = NoRow \/ dst = legacy
                    THEN tasks
                    ELSE Append(tasks, << legacy, dst >>)
    /\ queue' = Tail(queue)
    /\ UNCHANGED << rd_vars, pc, apply_changes, args, root, moves >>

\* the plan is printed; nothing to rename or dry run: return
RD_Return ==
    /\ pc = "rd_plan"
    /\ queue = << >>
    /\ tasks = << >> \/ ~ apply_changes
    /\ pc' = "rd_done"
    /\ UNCHANGED << rd_vars, script_vars >>

\* the plan is printed; APPLY mode goes on to STEP 6
RD_Apply ==
    /\ pc = "rd_plan"
    /\ queue = << >>
    /\ tasks # << >> /\ apply_changes
    /\ queue' = tasks
    /\ pc' = "rd_apply"
    /\ UNCHANGED << rd_vars, apply_changes, args, root, tasks, moves >>

\* STEP 6, one iteration: src.rename(dst) returns.  On a dst that exists this
\* is the POSIX rename onto an empty directory, which replaces it.
RD_RenameOk ==
    /\ pc = "rd_apply"
    /\ queue # << >>
    /\ LET src == Head(queue)[1]
           dst == Head(queue)[2]
       IN  /\ src \in DOMAIN root
           /\ root' = [ n \in (DOMAIN root \ { src }) \cup { dst } |->
                          IF n = dst THEN root[src] ELSE root[n] ]
           /\ moves' = Append(moves, Move(src, dst, dst \in DOMAIN root, TRUE))
    /\ queue' = Tail(queue)
    /\ UNCHANGED << rd_vars, pc, apply_changes, args, tasks >>

\* STEP 6, one iteration: src.rename(dst) raises (FileExistsError on Windows
\* when dst exists, a lock, a permission): ERROR is printed, next task
RD_RenameError ==
    /\ pc = "rd_apply"
    /\ queue # << >>
    /\ moves' = Append(moves, Move(Head(queue)[1], Head(queue)[2],
                                   Head(queue)[2] \in DOMAIN root, FALSE))
    /\ queue' = Tail(queue)
    /\ UNCHANGED << rd_vars, pc, apply_changes, args, root, tasks >>

\* STEP 7: the summary
RD_Done ==
    /\ pc = "rd_apply"
    /\ queue = << >>
    /\ pc' = "rd_done"
    /\ UNCHANGED << rd_vars, script_vars >>

NextRenameDirs ==
    \/ RD_Plan
    \/ RD_Return
    \/ RD_Apply
    \/ RD_RenameOk
    \/ RD_RenameError
    \/ RD_Done

SpecRenameDirs == InitRenameDirs /\ [][NextRenameDirs]_vars

\* C21: rename_dirs.py never overwrites.  In apply mode every src.rename(dst)
\* is called with a dst that does not exist at that moment, and the
\* destinations planned for different source folders are different
C21_NeverOverwrites ==
    /\ \A i \in 1..Len(moves) : ~ moves[i].existed
    /\ \A i, j \in 1..Len(tasks) : tasks[i][2] = tasks[j][2] => i = j

\* a name was taken and the destination got a number
C21_Numbered ==
    \E i \in 1..Len(tasks) : tasks[i][2] \in { "3___7_Roe_ M_1. Ann", "3___7_Roe_ M_2. Ann" }

\* what holds of the code: a destination is not an entry that exists when the
\* plan is made, and it is not the name of a source folder
C21_FreeWhenPlanned ==
    (pc = "rd_plan" \/ (pc = "rd_apply" /\ moves = << >>)) =>
        \A i \in 1..Len(tasks) :
            /\ tasks[i][2] \notin DOMAIN root
            /\ tasks[i][1] \in DOMAIN root

\* the folder a rename replaced: the folder 100_200 has the name planned for
\* both and the folder 100, renamed first, is gone
C21_FolderReplaced ==
    /\ pc = "rd_done"
    /\ Len(moves) = 2 /\ moves[2].existed /\ moves[2].ok
    /\ \A n \in DOMAIN root : root[n] # 1

-----------------------------------------------------------------------------
(* cleanup_ffed_ids.py                                                      *)

SEP_SET == { "_", "-", " ", "." }

\* s.startswith(p)
startswith(s, p) == Len(p) <= Len(s) /\ SubSeq(s, 1, Len(p)) = p

RECURSIVE strip_leading_separators(_)
strip_leading_separators(s) ==
    IF s # "" /\ Head(s) \in SEP_SET THEN strip_leading_separators(Tail(s)) ELSE s

\* stem.count(key): occurrences that do not overlap, counted from the left
RECURSIVE str_count(_, _)
str_count(s, key) ==
    IF Len(s) < Len(key) THEN 0
    ELSE IF startswith(s, key)
         THEN 1 + str_count(SubSeq(s, Len(key) + 1, Len(s)), key)
         ELSE str_count(Tail(s), key)

\* stem.replace(key, ""): one pass from the left, what is left is not looked
\* at again
RECURSIVE str_remove(_, _)
str_remove(s, key) ==
    IF Len(s) < Len(key) THEN s
    ELSE IF startswith(s, key)
         THEN str_remove(SubSeq(s, Len(key) + 1, Len(s)), key)
         ELSE Head(s) \o str_remove(Tail(s), key)

\* remove_all_key_occurrences(stem, key): << new_stem, removed_count >>
remove_all_key_occurrences(stem, key) ==
    IF key = "" \/ str_count(stem, key) = 0 THEN << stem, 0 >>
    ELSE << str_remove(stem, key), str_count(stem, key) >>

\* name.rfind("."), counted from 0; -1 when there is no dot
RECURSIVE LastDot(_)
LastDot(s) ==
    IF s = "" THEN -1
    ELSE IF Ch(s, Len(s)) = "." THEN Len(s) - 1
         ELSE LastDot(SubSeq(s, 1, Len(s) - 1))

\* Path.suffix and Path.stem of a file name
path_suffix(name) ==
    LET i == LastDot(name)
    IN  IF 0 < i /\ i < Len(name) - 1 THEN SubSeq(name, i + 1, Len(name)) ELSE ""
path_stem(name) == SubSeq(name, 1, Len(name) - Len(path_suffix(name)))

\* folder_key_for: the first 7 characters of the parent folder's name
KEY_LEN == 7
folder_key_for(parent) == SubSeq(parent, 1, IF Len(parent) < KEY_LEN THEN Len(parent) ELSE KEY_LEN)

\* unique_path(dst), names being the entries of the folder
Numbered(name, n) == path_stem(name) \o "_" \o str_int(n) \o path_suffix(name)
unique_path(names, name) ==
    IF name \notin names THEN name
    ELSE LET n == CHOOSE i \in 1..(Cardinality(names) + 1) :
                      /\ Numbered(name, i) \notin names
                      /\ \A j \in 1..(i - 1) : Numbered(name, j) \in names
         IN  Numbered(name, n)

\* ---- inputs ---------------------------------------------------------------
\* subfolders and the file names they may hold
SubFolders == { "ab", "1234567-Doe" }
FileNames(parent) ==
    IF parent = "ab"
    THEN { "xaabb.txt", "ab.txt", "abx.txt", "x.txt", "ab_x.txt", "xab.txt",
           "x_ab.ab", ".abx", "ab" }
    ELSE { "x12312345674567.pdf", "1234567_r.pdf", "r1234567.pdf", "r.pdf" }

\* files of one subfolder at most
MaxFiles == 2

\* the orders in which os.walk may list the names S
Orders(S) ==
    { q \in [ 1..Cardinality(S) -> S ] : \A i, j \in 1..Cardinality(S) : q[i] = q[j] => i = j }

InitCleanup ==
    /\ EngineIdle
    /\ ExtractIdle
    /\ pc = "cl_pass1"
    /\ apply_changes \in BOOLEAN
    /\ \E parent \in SubFolders :
         /\ args = [ parent |-> parent ]
         /\ \E S \in SUBSET FileNames(parent) :
              /\ S # {} /\ Cardinality(S) <= MaxFiles
              /\ root \in [ S -> { 1 } ]
              /\ queue \in Orders(S)
    /\ tasks = << >>
    /\ moves = << >>

\* PASS 1, what one iteration computes for the file src:
\* << removed > 0 and new_stem != stem, the new name before unique_path >>
Pass1Name(src) ==
    LET stem == path_stem(src)
        r    == remove_all_key_occurrences(stem, folder_key_for(args.parent))
        new_stem == strip_leading_separators(r[1])
    IN  << r[2] > 0 /\ new_stem # stem, new_stem \o path_suffix(src) >>

\* PASS 1, one iteration that does not raise: the name stays, or the file is
\* renamed (apply mode), or the change is only counted (dry run)
CL_Pass1 ==
    /\ pc = "cl_pass1"
    /\ queue # << >>
    /\ LET src == Head(queue)
           p   == Pass1Name(src)
           dst == unique_path(DOMAIN root, p[2])
       IN  /\ p[1] => p[2] # ""
           /\ IF p[1] /\ apply_changes
              THEN /\ root' = [ n \in (DOMAIN root \ { src }) \cup { dst } |-> 1 ]
                   /\ moves' = Append(moves, Move(src, dst, dst \in DOMAIN root, TRUE))
              ELSE UNCHANGED << root, moves >>
    /\ queue' = Tail(queue)
    /\ UNCHANGED << rd_vars, pc, apply_changes, args, tasks >>

\* PASS 1, one iteration: src.with_name("") raises ValueError outside the try
CL_Pass1_ValueError ==
    /\ pc = "cl_pass1"
    /\ queue # << >>
    /\ Pass1Name(Head(queue))[1]
    /\ Pass1Name(Head(queue))[2] = ""
    /\ pc' = "cl_crashed"
    /\ UNCHANGED << rd_vars, script_vars >>

\* PASS 1, one iteration: src.rename(dst) raises, ERROR (PASS1) is written
CL_Pass1_Error ==
    /\ pc = "cl_pass1"
    /\ queue # << >>
    /\ apply_changes
    /\ LET p == Pass1Name(Head(queue))
       IN  /\ p[1] /\ p[2] # ""
           /\ moves' = Append(moves, Move(Head(queue), unique_path(DOMAIN root, p[2]),
                                          FALSE, FALSE))
    /\ queue' = Tail(queue)
    /\ UNCHANGED << rd_vars, pc, apply_changes, args, root, tasks >>

\* main(): PASS 1 is over, the files are collected again for PASS 2
CL_Refresh ==
    /\ pc = "cl_pass1"
    /\ queue = << >>
    /\ queue' \in Orders(DOMAIN root)
    /\ pc' = "cl_pass2"
    /\ UNCHANGED << rd_vars, apply_changes, args, root, tasks, moves >>

\* PASS 2, what one iteration computes for the file src
Pass2Name(src) ==
    LET key == folder_key_for(args.parent)
    IN  << key # "" /\ ~ startswith(path_stem(src), key),
           key \o path_stem(src) \o path_suffix(src) >>

\* PASS 2, one iteration that does not raise
CL_Pass2 ==
    /\ pc = "cl_pass2"
    /\ queue # << >>
    /\ LET src == Head(queue)
           p   == Pass2Name(src)
           dst == unique_path(DOMAIN root, p[2])
       IN  IF p[1] /\ apply_changes
           THEN /\ root' = [ n \in (DOMAIN root \ { src }) \cup { dst } |-> 1 ]
                /\ moves' = Append(moves, Move(src, dst, dst \in DOMAIN root, TRUE))
           ELSE UNCHANGED << root, moves >>
    /\ queue' = Tail(queue)
    /\ UNCHANGED << rd_vars, pc, apply_changes, args, tasks >>

\* PASS 2, one iteration: src.rename(dst) raises, ERROR (PASS2) is written
CL_Pass2_Error ==
    /\ pc = "cl_pass2"
    /\ queue # << >>
    /\ apply_changes
    /\ Pass2Name(Head(queue))[1]
    /\ moves' = Append(moves, Move(Head(queue),
                                   unique_path(DOMAIN root, Pass2Name(Head(queue))[2]),
                                   FALSE, FALSE))
    /\ queue' = Tail(queue)
    /\ UNCHANGED << rd_vars, pc, apply_changes, args, root, tasks >>

\* main(): the recap
CL_Done ==
    /\ pc = "cl_pass2"
    /\ queue = << >>
    /\ pc' = "cl_done"
    /\ UNCHANGED << rd_vars, script_vars >>

NextCleanup ==
    \/ CL_Pass1
    \/ CL_Pass1_ValueError
    \/ CL_Pass1_Error
    \/ CL_Refresh
    \/ CL_Pass2
    \/ CL_Pass2_Error
    \/ CL_Done

SpecCleanup == InitCleanup /\ [][NextCleanup]_vars

\* the offsets at which key is found in s, overlapping ones included
Occurrences(s, key) ==
    { i \in 1..(Len(s) - Len(key) + 1) : SubSeq(s, i, i + Len(key) - 1) = key }

\* both passes have run in apply mode and no rename raised
PassesDone ==
    /\ pc = "cl_done"
    /\ apply_changes
    /\ \A i \in 1..Len(moves) : moves[i].ok

\* C22: canonical key.  After PASS 1 and PASS 2 in apply mode without rename
\* errors the stem of every file of the subfolder starts with KEY and holds
\* KEY exactly once
C22_CanonicalKey ==
    PassesDone =>
        \A n \in DOMAIN root :
            /\ startswith(path_stem(n), folder_key_for(args.parent))
            /\ Cardinality(Occurrences(path_stem(n), folder_key_for(args.parent))) = 1

\* what holds of the code: every stem starts with KEY
C22_StartsWithKey ==
    PassesDone =>
        \A n \in DOMAIN root : startswith(path_stem(n), folder_key_for(args.parent))

\* the file x12312345674567.pdf of the folder 1234567-Doe ends with KEY twice
C22_KeyTwice ==
    PassesDone /\ "1234567x1234567.pdf" \in DOMAIN root

-----------------------------------------------------------------------------
(* 03_renamer.py                                                            *)

\* the value the file as shipped assigns to DRY_RUN in its main block
Renamer_DRY_RUN == FALSE

\* prefix of rename_files: the first 7 characters of the folder's name
prefix_of(parent) == folder_key_for(parent)

\* the script is run on one subfolder, as shipped or after DRY_RUN was
\* edited to the other value
InitRenamer ==
    /\ EngineIdle
    /\ ExtractIdle
    /\ pc = "rn_walk"
    /\ apply_changes = FALSE
    /\ \E parent \in SubFolders, e \in BOOLEAN :
         /\ args = [ parent |-> parent, edited |-> e,
                     dry_run |-> IF e THEN ~ Renamer_DRY_RUN ELSE Renamer_DRY_RUN ]
         /\ \E S \in SUBSET FileNames(parent) :
              /\ S # {} /\ Cardinality(S) <= MaxFiles
              /\ root \in [ S -> { 1 } ]
              /\ queue \in Orders(S)
    /\ tasks = << >>
    /\ moves = << >>

\* new_name of rename_files for the file fname
Renamer_new_name(fname) == prefix_of(args.parent) \o path_stem(fname) \o path_suffix(fname)

\* a file with the new name exists: SKIP (would overwrite)
RN_Skip ==
    /\ pc = "rn_walk"
    /\ queue # << >>
    /\ Renamer_new_name(Head(queue)) \in DOMAIN root
    /\ queue' = Tail(queue)
    /\ UNCHANGED << rd_vars, pc, apply_changes, args, root, tasks, moves >>

\* dry_run: "Would rename" is printed
RN_WouldRename ==
    /\ pc = "rn_walk"
    /\ queue # << >>
    /\ Renamer_new_name(Head(queue)) \notin DOMAIN root
    /\ args.dry_run
    /\ tasks' = Append(tasks, << Head(queue), Renamer_new_name(Head(queue)) >>)
    /\ queue' = Tail(queue)
    /\ UNCHANGED << rd_vars, pc, apply_changes, args, root, moves >>

\* not dry_run: "Renaming" is printed and src.rename(dst) returns
RN_Rename ==
    /\ pc = "rn_walk"
    /\ queue # << >>
    /\ ~ args.dry_run
    /\ LET src == Head(queue)
           dst == Renamer_new_name(src)
       IN  /\ dst \notin DOMAIN root
           /\ root' = [ n \in (DOMAIN root \ { src }) \cup { dst } |-> 1 ]
           /\ moves' = Append(moves, Move(src, dst, FALSE, TRUE))
    /\ queue' = Tail(queue)
    /\ UNCHANGED << rd_vars, pc, apply_changes, args, tasks >>

\* not dry_run: src.rename(dst) raises, nothing catches it
RN_RenameRaises ==
    /\ pc = "rn_walk"
    /\ queue # << >>
    /\ ~ args.dry_run
    /\ Renamer_new_name(Head(queue)) \notin DOMAIN root
    /\ pc' = "rn_crashed"
    /\ UNCHANGED << rd_vars, script_vars >>

\* os.walk is exhausted
RN_Done ==
    /\ pc = "rn_walk"
    /\ queue = << >>
    /\ pc' = "rn_done"
    /\ UNCHANGED << rd_vars, script_vars >>

NextRenamer ==
    \/ RN_Skip
    \/ RN_WouldRename
    \/ RN_Rename
    \/ RN_RenameRaises
    \/ RN_Done

SpecRenamer == InitRenamer /\ [][NextRenamer]_vars

\* C23: 03_renamer.py run as shipped, without editing the file, only shows
\* what it would do: no file is renamed
C23_ShippedOnlyShows == ~ args.edited => moves = << >>

\* what holds of the code: nothing is renamed when dry_run is True
C23_DryRunOnlyShows == args.dry_run => moves = << >>

\* the script as shipped has renamed x.txt of the folder ab
C23_ShippedRenamed ==
    /\ ~ args.edited
    /\ pc = "rn_done"
    /\ "abx.txt" \in DOMAIN root /\ "x.txt" \notin DOMAIN root
    /\ moves # << >>

-----------------------------------------------------------------------------
(* pick_best on lists of scored candidates                                  *)

\* names with 2, 3 and 4 tokens; Roe, Mary and Kim, Lena have the same number
\* of tokens and of characters
PickNames ==
    { << "Roe", "Mary" >>, << "Kim", "Lena" >>, << "Van Roe", "Al" >>,
      << "Roemer", "Maria" >>, << "Li", "Bo Ann Kay" >> }

\* scores score_candidate gives to names of three tokens at most: FILENAME
\* with separator form, DOCUMENT with separator form, and a declared name
PickScores == { 19, 18, 34 }

\* lists of MaxCands candidates at most
MaxCands == 3
PickLists ==
    UNION { [ 1..n -> { << k[1], k[2], sc >> : k \in PickNames, sc \in PickScores } ] :
            n \in 0..MaxCands }

InitPick ==
    /\ EngineIdle
    /\ ScriptIdle
    /\ pc = "pick"
    /\ xin \in { [ kind |-> "pick", cands |-> cs ] : cs \in PickLists }
    /\ xpos = 0
    /\ xout = << >>
    /\ xlast = << >>

\* pick_best is applied to the list
Pick_Apply ==
    /\ pc = "pick"
    /\ xpos = 0
    /\ xpos' = 1
    /\ xout' = << pick_best(xin.cands) >>
    /\ UNCHANGED << engine_vars, pc, xin, xlast >>

NextPick == Pick_Apply

SpecPick == InitPick /\ [][NextPick]_vars

\* the scores of the name k in the list cs, its tokens and its characters
ScoresOf(cs, k) == { cs[i][3] : i \in { j \in 1..Len(cs) : Key(cs[j]) = k } }
AllScores(cs) == { cs[i][3] : i \in 1..Len(cs) }
TokensOf(k) == Len(str_split(k[1] \o " " \o k[2]))
CharsOf(k) == CountNonSpace(k[1]) + CountNonSpace(k[2])
TopNames(cs) ==
    { k \in { Key(cs[i]) : i \in 1..Len(cs) } :
        \E s \in ScoresOf(cs, k) : \A x \in AllScores(cs) : x <= s }

\* C24: winner selection.  For a non-empty list pick_best returns a name of
\* the list whose best score is the maximum over all candidates, that has the
\* fewest tokens among the names with that score and the fewest characters
\* among those; for the empty list it returns the no-name outcome
C24_WinnerSelection ==
    (pc = "pick" /\ xpos = 1) =>
        LET cs == xin.cands
            w  == xout[1]
        IN  IF cs = << >> THEN w = NoName
            ELSE /\ w \in TopNames(cs)
                 /\ \A k \in TopNames(cs) : TokensOf(w) <= TokensOf(k)
                 /\ \A k \in TopNames(cs) :
                      TokensOf(k) = TokensOf(w) => CharsOf(w) <= CharsOf(k)

\* the three tiers decide: a lower score with fewer tokens loses, and of two
\* names with the top score the one with more characters and fewer tokens wins
C24_Witness ==
    /\ pc = "pick" /\ xpos = 1
    /\ xin.cands = << << "Van Roe", "Al", 34 >>, << "Roemer", "Maria", 34 >>,
                      << "Roe", "Mary", 19 >> >>
    /\ xout = << << "Roemer", "Maria" >> >>

\* the list cs in the order p of its positions
Permuted(cs, p) == [ i \in 1..Len(cs) |-> cs[p[i]] ]

\* C29: winner determinism.  pick_best returns the same name for every
\* permutation of the candidate list, also when two names tie on score,
\* tokens and characters
C29_OrderOfCandidates ==
    (pc = "pick" /\ xpos = 1) =>
        \A p \in Orders(1..Len(xin.cands)) : pick_best(Permuted(xin.cands, p)) = xout[1]

\* what holds of the code: the order decides among the names that tie on all
\* three parts of the sort key and nowhere else
C29_OrderOnlyBreaksFullTies ==
    (pc = "pick" /\ xpos = 1) =>
        \A p \in Orders(1..Len(xin.cands)) :
            LET v == pick_best(Permuted(xin.cands, p))
            IN  \/ v = xout[1]
                \/ /\ v # NoName /\ xout[1] # NoName
                   /\ v \in TopNames(xin.cands) /\ xout[1] \in TopNames(xin.cands)
                   /\ TokensOf(v) = TokensOf(xout[1])
                   /\ CharsOf(v) = CharsOf(xout[1])

\* Roe, Mary and Kim, Lena tie; the first in the list wins
C29_TieByOrder ==
    /\ pc = "pick" /\ xpos = 1
    /\ xin.cands = << << "Kim", "Lena", 19 >>, << "Roe", "Mary", 19 >> >>
    /\ xout = << << "Kim", "Lena" >> >>

-----------------------------------------------------------------------------
(* Properties of the scorer and the validator on the extractors' calls      *)

\* the match the last step of the extractor visited
LastHit == Visited[xpos]

\* the score the scoring rule gives to the candidate c produced from the
\* match h of a text of the given kind, computed on c's own (last, first)
RuleScore(kind, h, c) ==
    LET parts == Len(str_split(c[1] \o " " \o c[2]))
    IN  10 + (IF h.pat # "SPACE" THEN 6 ELSE 0)
           + (IF h.pat = "DVF" THEN 4 ELSE 0)
           + (IF kind = "filename" THEN 2 ELSE 0)
           + (IF kind = "pdf" THEN 1 ELSE 0)
           + (IF h.pat = "DVF" THEN 12 ELSE 0)
           + (IF parts <= 3 THEN 1 ELSE 0)
           - (IF parts >= 5 THEN 2 ELSE 0)
           - (IF \E i \in 1..Len(c[1]) : Ch(c[1], i) = " " THEN 2 ELSE 0)

\* C25: scorer.  The score of every emitted candidate is 10 + 6 (separator
\* form) + 4 (near anchor) + 2 (FILENAME) + 1 (DOCUMENT) + 12 (declared name)
\* + 1 (three tokens at most) - 2 (five tokens or more) - 2 (space in the
\* last-name side), with the tokens and the last-name side of the candidate's
\* own cleaned (last, first)
C25_ScoreOfEmitted ==
    (pc = "extract" /\ xpos > 0 /\ xlast # << >>) =>
        xlast[1][3] = RuleScore(xin.kind, LastHit, xlast[1])

\* what holds of the code: the candidates of the general patterns of a
\* document are scored on their own cleaned (last, first)
C25_GeneralScoredOnCleaned ==
    (pc = "extract" /\ xpos > 0 /\ xlast # << >> /\ xin.kind = "pdf" /\ LastHit.pat # "DVF") =>
        xlast[1][3] = RuleScore(xin.kind, LastHit, xlast[1])

\* the raw (last, first) the extractor takes from the match h
RawPair(h) ==
    LET flip == h.pat = "SPACE"
        last  == norm_cap(IF flip THEN h.g2 ELSE h.g1)
        first == norm_cap(IF flip THEN h.g1 ELSE h.g2)
    IN  IF h.pat = "DVF" THEN << strip_labels(last), strip_labels(first) >>
        ELSE << last, first >>

\* the tokens that remain of a side once its trailing labels are stripped
RemainingTokens(side) == str_split(str_replace(strip_labels(side), ",", " "))

\* a remaining token of the side fails the token filter
HasFailingToken(side) ==
    \E i \in 1..Len(RemainingTokens(side)) : ~ token_ok(RemainingTokens(side)[i])

C27_EmittedTokensPass ==
    (pc = "extract" /\ xpos > 0 /\ xlast # << >>) =>
        \A s \in 1..2 : \A i \in 1..Len(str_split(xlast[1][s])) :
            TokenKept(str_split(xlast[1][s])[i])

\* the file name "Mary Form Roe" has yielded (Roe, Mary): Form was dropped
C27_TokenDropped ==
    /\ pc = "extract" /\ xpos > 0
    /\ xin.kind = "filename" /\ xin.text = "Mary Form Roe"
    /\ xlast = << << "Roe", "Mary", 11 >> >>

-----------------------------------------------------------------------------
(* The body of main()'s loop run by one worker per student folder, no lock  *)

Workers == 1..2

\* a worker: its folder and the content of it, where it is, the entries the
\* listing under way has not given yet, the candidates collected, the name
\* derived and the destination planned
Worker(folder, c) ==
    [ folder |-> folder, c |-> c, at |-> "names", pend |-> 1..Len(FilesOf(c)),
      cands |-> << >>, best |-> NoName, target |-> "" ]

wk_vars ==
    << edited, fs0, run, todo, folder_vars, rename_vars, out, hist, faulted, xvars,
       pc, apply_changes, args, root, queue, moves >>

InitWorkers ==
    /\ apply_changes = FALSE
    /\ args = << >>
    /\ root = NoEntries
    /\ queue = << >>
    /\ moves = << >>
    /\ ExtractIdle
    /\ edited \in BOOLEAN
    /\ dryRun = (IF edited THEN ~ DRY_RUN ELSE DRY_RUN)
    /\ \E ca \in 1..Len(Contents), taken \in TakenSets : fs = InitRoot(ca, taken)
    /\ fs0 = fs
    /\ run = 1
    /\ todo = {}
    /\ cur = ""
    /\ pend = {}
    /\ cands = << >>
    /\ tier = "names"
    /\ opened = {}
    /\ best = NoName
    /\ target = ""
    /\ attempt = 0
    /\ slept = 0
    /\ last_err = NoError
    /\ out = << >>
    /\ hist = << >>
    /\ faulted = 0
    /\ pc = "workers"
    /\ tasks = << Worker(FolderA, fs[FolderA].c), Worker(FolderB, fs[FolderB].c) >>

\* Step 1, one iteration of worker w
WK_FilenameStep(w) ==
    /\ tasks[w].at = "names"
    /\ \E i \in tasks[w].pend :
         tasks' = [ tasks EXCEPT
                      ![w].pend = tasks[w].pend \ { i },
                      ![w].cands = IF FilesOf(tasks[w].c)[i].isfile
                                   THEN tasks[w].cands \o NameCandsOf[tasks[w].c][i]
                                   ELSE tasks[w].cands ]
    /\ UNCHANGED << wk_vars, dryRun, fs >>

\* Step 2, one iteration of worker w: only the body of a file named *.pdf is read
WK_PdfStep(w) ==
    /\ tasks[w].at = "pdfs"
    /\ \E i \in tasks[w].pend :
         /\ ~ (FilesOf(tasks[w].c)[i].isfile /\ IsPdfName(FilesOf(tasks[w].c)[i].name)
                 /\ PagesRaise(FilesOf(tasks[w].c)[i]))
         /\ tasks' = [ tasks EXCEPT
                         ![w].pend = tasks[w].pend \ { i },
                         ![w].cands = IF FilesOf(tasks[w].c)[i].isfile
                                         /\ IsPdfName(FilesOf(tasks[w].c)[i].name)
                                      THEN tasks[w].cands \o PdfCandsOf[tasks[w].c][i]
                                      ELSE tasks[w].cands ]
    /\ UNCHANGED << wk_vars, dryRun, fs >>

\* Step 2, one iteration on a PDF for which pdf_text raises: the worker ends
WK_PdfRaise(w) ==
    /\ tasks[w].at = "pdfs"
    /\ \E i \in tasks[w].pend :
         LET f == FilesOf(tasks[w].c)[i]
         IN  f.isfile /\ IsPdfName(f.name) /\ PagesRaise(f)
    /\ tasks' = [ tasks EXCEPT ![w].at = "crashed" ]
    /\ UNCHANGED << wk_vars, dryRun, fs >>

\* pick_best of a tier: a name of the file names is returned, or Step 2
\* begins, or Step 2 returns its name or none ([SKIP])
WK_Decide(w) ==
    /\ tasks[w].at \in { "names", "pdfs" }
    /\ tasks[w].pend = {}
    /\ LET b == pick_best(tasks[w].cands)
       IN  tasks' = IF b # NoName
                    THEN [ tasks EXCEPT ![w].best = b, ![w].at = "derived" ]
                    ELSE IF tasks[w].at = "names"
                    THEN [ tasks EXCEPT ![w].at = "pdfs", ![w].cands = << >>,
                                        ![w].pend = 1..Len(FilesOf(tasks[w].c)) ]
                    ELSE [ tasks EXCEPT ![w].at = "done" ]
    /\ UNCHANGED << wk_vars, dryRun, fs >>

\* safe_rename up to the test of DRY_RUN: the destination is planned among the
\* names present
WK_Plan(w) ==
    /\ tasks[w].at = "derived"
    /\ tasks' = [ tasks EXCEPT
                    ![w].target = PlannedName(DOMAIN fs, target_name(tasks[w].folder, tasks[w].best)),
                    ![w].at = IF dryRun THEN "done" ELSE "try" ]
    /\ UNCHANGED << wk_vars, dryRun, fs >>

\* folder.rename(target) returns
WK_Rename(w) ==
    /\ tasks[w].at = "try"
    /\ fs' = Renamed(fs, tasks[w].folder, tasks[w].target)
    /\ tasks' = [ tasks EXCEPT ![w].at = "done" ]
    /\ UNCHANGED << wk_vars, dryRun >>

\* folder.rename(target) raises to the end: [FAIL]
WK_Fail(w) ==
    /\ tasks[w].at = "try"
    /\ tasks' = [ tasks EXCEPT ![w].at = "done" ]
    /\ UNCHANGED << wk_vars, dryRun, fs >>

NextWorkers ==
    \E w \in Workers :
        \/ WK_FilenameStep(w)
        \/ WK_PdfStep(w)
        \/ WK_PdfRaise(w)
        \/ WK_Decide(w)
        \/ WK_Plan(w)
        \/ WK_Rename(w)
        \/ WK_Fail(w)

SpecWorkers == InitWorkers /\ [][NextWorkers]_vars

\* base \o " (i)" for some i >= 1, or base itself
BaseOrNumbered(name, base) ==
    \/ name = base
    \/ \E i \in 1..(Cardinality(DOMAIN fs0) + 2) : name = WithNumber(base, i)

\* C26: workers on distinct student folders, run without a lock, never plan
\* the same destination name, numbered or not: each destination begins with
\* the 8-digit name of the worker's own folder
C26_WorkersNeverShareDestination ==
    pc = "workers" =>
        /\ \A v, w \in Workers :
             (v # w /\ tasks[v].target # "" /\ tasks[w].target # "")
                 => tasks[v].target # tasks[w].target
        /\ \A w \in Workers :
             tasks[w].target # "" =>
                 /\ startswith(tasks[w].target, tasks[w].folder \o " - ")
                 /\ BaseOrNumbered(tasks[w].target, target_name(tasks[w].folder, tasks[w].best))

\* both workers have derived the same name and planned, one of them a
\* numbered destination, before either has renamed
C26_Witness ==
    /\ pc = "workers"
    /\ tasks[1].best = tasks[2].best
    /\ tasks[1].at = "try" /\ tasks[2].at = "try"
    /\ tasks[1].target = WithNumber(target_name(FolderA, tasks[1].best), 1)
    /\ tasks[2].target = target_name(FolderB, tasks[2].best)

-----------------------------------------------------------------------------
(* Properties of the destination name (specification Spec)                  *)

\* t is "<id8> - <last>, <first>" when no entry has that name, and otherwise
\* that name with " (i)" for the least i >= 1 whose name no entry has
DestinationIs(t, names, id8, w) ==
    LET base == id8 \o " - " \o w[1] \o ", " \o w[2]
        numbered(i) == base \o " (" \o str_int(i) \o ")"
    IN  IF base \notin names THEN t = base
        ELSE \E i \in 1..(Cardinality(names) + 1) :
                /\ t = numbered(i)
                /\ numbered(i) \notin names
                /\ \A j \in 1..(i - 1) : numbered(j) \in names

\* C28: destination name.  For a folder id8 with the winner (last, first) the
\* destination is "<id8> - <last>, <first>" when that name is free and else
\* "<id8> - <last>, <first> (i)" for the least i >= 1 whose name is free; a
\* folder whose only file is "Wynn, Hannah - Immunizations.pdf" gets the
\* winner (Wynn, Hannah) and a destination that holds "Wynn, Hannah"
C28_DestinationName ==
    /\ pc = "try" => DestinationIs(target, DOMAIN fs, cur, best)
    /\ \A i \in 1..Len(out) :
         out[i].tag = "DRY" =>
             \E w \in WinnersOf[RootAt(out[i].run)[out[i].folder].c] \ { NoName } :
                 DestinationIs(out[i].to, DOMAIN fs, out[i].folder, w)
    /\ (pc \in { "derived", "try" } /\ fs[cur].c = 1) => best = WynnHannah
    /\ (pc = "try" /\ fs[cur].c = 1) => startswith(target, cur \o " - Wynn, Hannah")

\* the folder with the file "Wynn, Hannah - Immunizations.pdf": its name is
\* taken, " (1)" is free and " (2)" is taken, and " (1)" is the destination
C28_Witness ==
    /\ pc = "try"
    /\ fs[cur].c = 1
    /\ cur \o " - Wynn, Hannah" \in DOMAIN fs
    /\ cur \o " - Wynn, Hannah (2)" \in DOMAIN fs
    /\ target = cur \o " - Wynn, Hannah (1)"

\* t is base when no entry has that name, else base with the least free number
LeastFreeOf(t, names, base) ==
    IF base \notin names THEN t = base
    ELSE \E i \in 1..(Cardinality(names) + 1) :
            /\ t = WithNumber(base, i)
            /\ t \notin names
            /\ \A j \in 1..(i - 1) : WithNumber(base, j) \in names

\* what a preview run reports for the folder with the winner w when it finds
\* ROOT as the run under way found it
PreviewOf(t, folder, w) == LeastFreeOf(t, DOMAIN RootAt(run), target_name(folder, w))

\* a step of safe_rename that prints the line [DRY] or [OK]
ReportStep(tag) == Len(out') = Len(out) + 1 /\ out'[Len(out')].tag = tag

\* C30: preview fidelity.  For the same initial ROOT the pair old -> new that
\* a preview run reports for a folder is the rename a commit run performs for
\* it, folder after folder: both are the destination chosen in the ROOT the
\* run found, whatever the commit run has renamed before, and when a commit
\* run without failure is over every folder is under the name reported
C30_PreviewFidelity ==
    /\ [][ ReportStep("DRY") =>
             (dryRun /\ fs' = fs /\ PreviewOf(out'[Len(out')].to, cur, best)) ]_vars
    /\ [][ ReportStep("OK") =>
             /\ ~ dryRun
             /\ out'[Len(out')].folder = cur
             /\ PreviewOf(out'[Len(out')].to, cur, best)
             /\ fs' = Renamed(fs, cur, out'[Len(out')].to) ]_vars
    /\ [] ( \A r \in 1..Len(hist) : \A i \in 1..Len(out) :
              (out[i].run = r /\ out[i].tag = "OK") =>
                  /\ out[i].to \in DOMAIN hist[r]
                  /\ hist[r][out[i].to] = RootAt(r)[out[i].folder]
                  /\ out[i].folder \notin DOMAIN hist[r] )

\* a commit run has renamed both folders, the second after the first, and
\* both derived the same name
C30_Witness ==
    /\ ~ dryRun
    /\ Len(hist) >= 1
    /\ \E i, j \in 1..Len(out) :
         /\ i < j
         /\ out[i].run = 1 /\ out[j].run = 1
         /\ out[i].tag = "OK" /\ out[j].tag = "OK"
         /\ out[i].to = target_name(out[i].folder, WynnHannah)
         /\ out[j].to = target_name(out[j].folder, WynnHannah)

=============================================================================
